---------------------------- MODULE Spec2Model ----------------------------
(***************************************************************************)
(* A model of the crypto price tracker's event pipeline:                   *)
(*   notification.py      EmailNotificationHandler (rate limit, retries,   *)
(*                        failover to the secondary server)                *)
(*   alert_manager.py     AlertManager (live alerts, digest buckets)       *)
(*   price_tracker.py     PriceTracker (rolling window, cached extrema)    *)
(*   websocket_handler.py WebSocketHandler.check_and_notify                *)
(*                                                                         *)
(* Conventions.  An Optional value is a sequence: None is <<>> and a       *)
(* present value v is <<v>>; a dict is a function whose absent keys map to *)
(* None.  Prices are integers (price units), a percentage change is the    *)
(* exact fraction num/den.  time.time() is the variable clock, advanced by *)
(* the environment between handlers.  Variables whose name starts with g_  *)
(* are history variables: they record what the handlers did and are never  *)
(* read by the modelled code.                                              *)
(***************************************************************************)
EXTENDS Integers, Sequences, FiniteSets, TLC

(* ------------------------------ configuration ------------------------- *)

NOTIFICATION_THRESHOLD == 1
NOTIFICATION_INTERVAL == 3600
PERCENTAGE_CHANGE_TIMEFRAME == 3600
MAX_RETRIES == 5
INITIAL_RETRY_DELAY == 1
MAX_RETRY_DELAY == 60
\* update_price_change(..., timeframe: int = 3600)
DEFAULT_TIMEFRAME == 3600
\* DAILY_DIGEST_TIME = "20:00", as seconds since midnight
DAILY_DIGEST_TIME == 72000
\* timedelta(days=1), in seconds
DAY == 86400

\* the Config object with the values of config.py
DefaultConfig ==
    [MAX_RETRIES |-> MAX_RETRIES,
     PERCENTAGE_CHANGE_TIMEFRAME |-> PERCENTAGE_CHANGE_TIMEFRAME]

(* ------------------------------ bounds -------------------------------- *)

\* the clock stops advancing once it has reached MaxClock
MaxClock == 3601
\* handler invocations in one behaviour
MaxCalls == 2
\* handler invocations after the buckets were seeded
MaxSeededCalls == 2
\* ticks handled in one behaviour
MaxTicks == 2
\* update_price_change calls in one behaviour
MaxUpdates == 3
\* send_notification calls in SpecNotify
MaxSends == 3
\* connections opened by run() in one behaviour
MaxConnects == 2
\* wake-ups of the digest task in one behaviour
MaxDigests == 2
\* calls of the PriceTracker's methods in one behaviour
MaxLookups == 3
\* frames the receive loop takes on one connection of run()
MaxRunFrames == 1
\* connections handle_websocket is called with in one behaviour
MaxStreams == 2
\* frames the feed sends on one connection
MaxFrames == 2
\* check_and_notify calls the frames of one behaviour ask for
MaxStreamTicks == 2
\* the clock of the watchdog harness stops here
MaxWatchClock == 1440
\* the digest scheduler is followed up to this day after the start
MaxDays == 2

Symbols == {"BTCUSDT", "ETHUSDT"}
\* SYMBOLS_OF_INTEREST, the allow-list of the running program
TrackedSymbols == {"BTCUSDT"}
Prices == {100, 101, 102}
\* the price a caller of the AlertManager passes to send_alert
AlertPrices == {101}
\* the environment lets this much time pass between two handlers
ClockSteps == {1800, 1801}

None == <<>>
Some(v) == <<v>>
Min(a, b) == IF a < b THEN a ELSE b
Abs(x) == IF x < 0 THEN -x ELSE x
\* Python's truth value of a list
Truthy(list) == list # <<>>

VARIABLES
    clock,
    price_changes,
    all_time_highs,
    all_time_lows,
    ninety_day_highs,
    ninety_day_lows,
    last_notification_time,
    ath_events,
    atl_events,
    ninety_day_ath_events,
    ninety_day_atl_events,
    price_movement_events,
    g_delivered_at,
    g_raised,
    g_samples,
    g_run,
    g_calls,
    g_last,
    retry_count,
    should_exit,
    run_pc,
    digest_task,
    g_loop,
    symbols_of_interest,
    config,
    all_usdt_symbols,
    last_message_time,
    websocket,
    handler,
    connection_check_task,
    g_stream,
    next_run,
    g_digest,
    digest_call

tracker_vars == << price_changes, all_time_highs, all_time_lows,
                   ninety_day_highs, ninety_day_lows >>

alert_vars == << last_notification_time, ath_events, atl_events,
                 ninety_day_ath_events, ninety_day_atl_events,
                 price_movement_events >>

\* CryptoPriceTracker.run: its retry counter, the shutdown flag, where run()
\* stands, the digest task, and the history of the reconnect loop
run_vars == << retry_count, should_exit, run_pc, digest_task, g_loop >>

\* WebSocketHandler: the allow-list, the Config object it shares with the
\* other objects, the symbols fetched from the exchange, the time of the last
\* frame, the connection handle_websocket works on, where handle_websocket
\* stands, its watchdog task, and the history of the stream
stream_vars == << symbols_of_interest, config, all_usdt_symbols,
                  last_message_time,
                  websocket, handler, connection_check_task, g_stream >>

\* schedule_daily_digest: the instant its sleep ends, the history of the
\* digests it asked for, and the send_daily_digest call it is suspended in
sched_vars == << next_run, g_digest, digest_call >>

vars == << clock, tracker_vars, alert_vars, g_delivered_at, g_raised,
           g_samples, g_run, g_calls, g_last, run_vars, stream_vars,
           sched_vars >>

(* ------------------------------ notification.py ----------------------- *)

AlertTypes == {"ATH", "ATL", "90-Day ATH", "90-Day ATL", "Price Movement"}

\* f"{alert_type} Alert: {symbol}"
AlertSubject(alert_type, symbol) ==
    [prefix |-> alert_type, symbol |-> symbol, day |-> 0]

\* f"Daily Digest for {now.strftime('%Y-%m-%d')}"
DigestSubject(now) ==
    [prefix |-> "Daily Digest", symbol |-> "", day |-> now \div 86400]

Subjects ==
    {AlertSubject(a, s) : a \in AlertTypes, s \in Symbols}
        \cup {DigestSubject(t) : t \in 0..MaxClock}
        \cup {DigestSubject(d * DAY) : d \in 0..MaxDays}

\* What the two SMTP servers do with one message: the first `fails` primary
\* attempts raise, the next one succeeds; secondary_ok is the secondary
\* server's answer should it be tried.
FailCounts == {0, MAX_RETRIES}
TransportOutcomes ==
    {[fails |-> f, secondary_ok |-> TRUE] : f \in FailCounts}
        \cup {[fails |-> MAX_RETRIES, secondary_ok |-> FALSE]}

\* every answer the two servers can give to one message
AllTransportOutcomes == [fails : 0..MAX_RETRIES, secondary_ok : BOOLEAN]

\* what send_notification does, step by step: an attempt on the primary
\* server (_send_email), a sleep (_handle_retry), an attempt on the secondary
\* server (_send_via_secondary_server)
PrimaryAttempt(ok) == [kind |-> "primary", ok |-> ok, delay |-> 0]
Sleep(delay) == [kind |-> "sleep", ok |-> TRUE, delay |-> delay]
SecondaryAttempt(ok) == [kind |-> "secondary", ok |-> ok, delay |-> 0]

\* mutant of retry_delay: the delay grows linearly
retry_delay_linear(attempt) ==
    Min(INITIAL_RETRY_DELAY * (attempt + 1), MAX_RETRY_DELAY)

\* _handle_retry: min(INITIAL_RETRY_DELAY * 2**attempt, MAX_RETRY_DELAY)
retry_delay(attempt) ==
    Min(INITIAL_RETRY_DELAY * (2 ^ attempt), MAX_RETRY_DELAY)

\* the retry loop of send_notification, `for attempt in
\* range(self.email_config.MAX_RETRIES)`, from iteration `attempt` on
RECURSIVE send_loop(_, _)
send_loop(attempt, t) ==
    IF attempt >= config.MAX_RETRIES
    THEN [outcome |-> "fell_through", primary |-> 0, secondary |-> 0,
          sleeps |-> <<>>, trace |-> <<>>]
    ELSE IF attempt >= t.fails
    THEN [outcome |-> "sent", primary |-> 1, secondary |-> 0, sleeps |-> <<>>,
          trace |-> << PrimaryAttempt(TRUE) >>]
    ELSE IF attempt < config.MAX_RETRIES - 1
    THEN LET r == send_loop(attempt + 1, t)
         IN  [r EXCEPT !.primary = @ + 1,
                       !.sleeps = <<retry_delay(attempt)>> \o @,
                       !.trace = << PrimaryAttempt(FALSE),
                                    Sleep(retry_delay(attempt)) >> \o @]
    ELSE IF t.secondary_ok
    THEN LET r == send_loop(attempt + 1, t)
         IN  [r EXCEPT !.outcome = "sent_secondary", !.primary = @ + 1,
                       !.secondary = @ + 1,
                       !.trace = << PrimaryAttempt(FALSE),
                                    SecondaryAttempt(TRUE) >> \o @]
    ELSE [outcome |-> "raised", primary |-> 1, secondary |-> 1,
          sleeps |-> <<>>,
          trace |-> << PrimaryAttempt(FALSE), SecondaryAttempt(FALSE) >>]

\* mutant of rate_limited: only half the interval is enforced
rate_limited_half_interval(lnt, subject, current_time) ==
    /\ lnt[subject] # None
    /\ current_time - lnt[subject][1] < NOTIFICATION_INTERVAL \div 2

\* the rate-limit test at the head of send_notification
rate_limited(lnt, subject, current_time) ==
    /\ lnt[subject] # None
    /\ current_time - lnt[subject][1] < NOTIFICATION_INTERVAL

\* mutant of send_notification: the ledger is written whatever the outcome
send_notification_marks_every_send(lnt, subject, current_time, t) ==
    IF rate_limited(lnt, subject, current_time)
    THEN [ledger |-> lnt, outcome |-> "rate_limited", primary |-> 0,
          secondary |-> 0, sleeps |-> <<>>, trace |-> <<>>]
    ELSE LET r == send_loop(0, t)
         IN  [ledger |-> [lnt EXCEPT ![subject] = Some(current_time)],
              outcome |-> r.outcome, primary |-> r.primary,
              secondary |-> r.secondary, sleeps |-> r.sleeps,
              trace |-> r.trace]

\* EmailNotificationHandler.send_notification: the ledger afterwards and what
\* the call did
send_notification(lnt, subject, current_time, t) ==
    IF rate_limited(lnt, subject, current_time)
    THEN [ledger |-> lnt, outcome |-> "rate_limited", primary |-> 0,
          secondary |-> 0, sleeps |-> <<>>, trace |-> <<>>]
    ELSE LET r == send_loop(0, t)
         IN  [ledger |-> IF r.outcome = "sent"
                         THEN [lnt EXCEPT ![subject] = Some(current_time)]
                         ELSE lnt,
              outcome |-> r.outcome, primary |-> r.primary,
              secondary |-> r.secondary, sleeps |-> r.sleeps,
              trace |-> r.trace]


(* ------------------------------ api_client.py ------------------------- *)

\* A run of n consecutive 4-hour candles with the same high and low
\* (kline[2] and kline[3]); a kline series is a sequence of runs, oldest
\* first.
Candles(high, low, n) == [high |-> high, low |-> low, n |-> n]

\* futures_klines(symbol, interval, limit): the most recent `limit` candles
RECURSIVE last_candles(_, _)
last_candles(series, limit) ==
    IF series = <<>> \/ limit <= 0 THEN <<>>
    ELSE LET k == series[Len(series)]
             older == SubSeq(series, 1, Len(series) - 1)
         IN  IF k.n >= limit THEN << [k EXCEPT !.n = limit] >>
             ELSE last_candles(older, limit - k.n) \o << k >>

\* get_historical_data(symbol, limit: int = 1000)
DEFAULT_LIMIT == 1000
\* update_ninety_day_high_low: limit=540, 90 days of 4-hour candles
NINETY_DAY_LIMIT == 540

\* What the exchange holds for a symbol when it is asked: the empty series
\* stands for a BinanceAPIException, which get_historical_data turns into
\* {"klines": []}.
ExchangeSeries ==
    { <<>>,
      << Candles(101, 101, 1) >>,
      << Candles(102, 100, 460), Candles(101, 101, 540) >> }

\* BinanceAPIClient.get_historical_data: every answer the call can give; an
\* exception other than BinanceAPIException leaves the call.
get_historical_data(symbol, limit) ==
    {[raised |-> FALSE, klines |-> last_candles(series, limit)] :
         series \in ExchangeSeries}
        \cup {[raised |-> TRUE, klines |-> <<>>]}

(* ------------------------------ price_tracker.py ---------------------- *)

\* the dicts of the PriceTracker, as one record
Tracker ==
    [price_changes |-> price_changes,
     all_time_highs |-> all_time_highs,
     all_time_lows |-> all_time_lows,
     ninety_day_highs |-> ninety_day_highs,
     ninety_day_lows |-> ninety_day_lows]

NewTracker ==
    [price_changes |-> [s \in Symbols |-> <<>>],
     all_time_highs |-> [s \in Symbols |-> None],
     all_time_lows |-> [s \in Symbols |-> None],
     ninety_day_highs |-> [s \in Symbols |-> None],
     ninety_day_lows |-> [s \in Symbols |-> None]]

Sample(price, timestamp) == [price |-> price, timestamp |-> timestamp]

\* (current_price - initial_price) / initial_price * 100, as a fraction
Percentage(current_price, initial_price) ==
    [num |-> (current_price - initial_price) * 100, den |-> initial_price]

\* mutant of update_price_change: the window is never trimmed
update_price_change_untrimmed(pc, symbol, current_price, current_time, timeframe) ==
    LET appended == Append(pc[symbol], Sample(current_price, current_time))
    IN  [price_changes |-> [pc EXCEPT ![symbol] = appended],
         change |-> IF Len(appended) > 1
                    THEN Some(Percentage(current_price, appended[1].price))
                    ELSE None]

\* mutant of update_price_change: a sample exactly `timeframe` old is evicted
update_price_change_strict(pc, symbol, current_price, current_time, timeframe) ==
    LET kept == SelectSeq(pc[symbol],
                    LAMBDA entry : current_time - entry.timestamp < timeframe)
        appended == Append(kept, Sample(current_price, current_time))
    IN  [price_changes |-> [pc EXCEPT ![symbol] = appended],
         change |-> IF Len(appended) > 1
                    THEN Some(Percentage(current_price, appended[1].price))
                    ELSE None]

\* mutant of update_price_change: the windows of all symbols are trimmed
update_price_change_trims_all(pc, symbol, current_price, current_time, timeframe) ==
    LET trimmed == [s \in DOMAIN pc |->
                       SelectSeq(pc[s],
                           LAMBDA entry :
                               current_time - entry.timestamp <= timeframe)]
        appended == Append(trimmed[symbol], Sample(current_price, current_time))
    IN  [price_changes |-> [trimmed EXCEPT ![symbol] = appended],
         change |-> IF Len(appended) > 1
                    THEN Some(Percentage(current_price, appended[1].price))
                    ELSE None]

\* PriceTracker.update_price_change: the dict afterwards and the value
\* returned
update_price_change(pc, symbol, current_price, current_time, timeframe) ==
    LET kept == SelectSeq(pc[symbol],
                    LAMBDA entry : current_time - entry.timestamp <= timeframe)
        appended == Append(kept, Sample(current_price, current_time))
    IN  [price_changes |-> [pc EXCEPT ![symbol] = appended],
         change |-> IF Len(appended) > 1
                    THEN Some(Percentage(current_price, appended[1].price))
                    ELSE None]

RECURSIVE max_high(_)
max_high(klines) ==
    IF Len(klines) = 1 THEN klines[1].high
    ELSE LET m == max_high(Tail(klines))
         IN  IF klines[1].high > m THEN klines[1].high ELSE m

RECURSIVE min_low(_)
min_low(klines) ==
    IF Len(klines) = 1 THEN klines[1].low
    ELSE LET m == min_low(Tail(klines))
         IN  IF klines[1].low < m THEN klines[1].low ELSE m

\* PriceTracker.update_all_time_high_low: one result per answer of the
\* historical-data call
update_all_time_high_low(tr, symbol) ==
    {IF ~h.raised /\ Truthy(h.klines)
     THEN [tracker |-> [tr EXCEPT
                          !.all_time_highs[symbol] = Some(max_high(h.klines)),
                          !.all_time_lows[symbol] = Some(min_low(h.klines))],
           raised |-> FALSE, fetched |-> TRUE]
     ELSE [tracker |-> tr, raised |-> h.raised, fetched |-> TRUE] :
         h \in get_historical_data(symbol, DEFAULT_LIMIT)}

\* PriceTracker.update_ninety_day_high_low
update_ninety_day_high_low(tr, symbol) ==
    {IF ~h.raised /\ Truthy(h.klines)
     THEN [tracker |-> [tr EXCEPT
                          !.ninety_day_highs[symbol] = Some(max_high(h.klines)),
                          !.ninety_day_lows[symbol] = Some(min_low(h.klines))],
           raised |-> FALSE, fetched |-> TRUE]
     ELSE [tracker |-> tr, raised |-> h.raised, fetched |-> TRUE] :
         h \in get_historical_data(symbol, NINETY_DAY_LIMIT)}

\* a getter that found its value cached: no call, nothing changes
Cached(tr) == {[tracker |-> tr, raised |-> FALSE, fetched |-> FALSE]}

\* mutant of get_all_time_high: the history is fetched on every call
get_all_time_high_always_fetches(tr, symbol) ==
    {[tracker |-> u.tracker, raised |-> u.raised, fetched |-> u.fetched,
      value |-> u.tracker.all_time_highs[symbol]] :
         u \in update_all_time_high_low(tr, symbol)}

\* PriceTracker.get_all_time_high: the tracker afterwards and the value
\* returned, or the exception of the historical-data call
get_all_time_high(tr, symbol) ==
    {[tracker |-> u.tracker, raised |-> u.raised, fetched |-> u.fetched,
      value |-> u.tracker.all_time_highs[symbol]] :
         u \in IF tr.all_time_highs[symbol] = None
               THEN update_all_time_high_low(tr, symbol)
               ELSE Cached(tr)}

\* PriceTracker.get_all_time_low
get_all_time_low(tr, symbol) ==
    {[tracker |-> u.tracker, raised |-> u.raised, fetched |-> u.fetched,
      value |-> u.tracker.all_time_lows[symbol]] :
         u \in IF tr.all_time_lows[symbol] = None
               THEN update_all_time_high_low(tr, symbol)
               ELSE Cached(tr)}

\* mutant of get_ninety_day_high: a cached value is fetched again
get_ninety_day_high_refetches(tr, symbol) ==
    {[tracker |-> u.tracker, raised |-> u.raised, fetched |-> u.fetched,
      value |-> u.tracker.ninety_day_highs[symbol]] :
         u \in update_ninety_day_high_low(tr, symbol)}

\* PriceTracker.get_ninety_day_high
get_ninety_day_high(tr, symbol) ==
    {[tracker |-> u.tracker, raised |-> u.raised, fetched |-> u.fetched,
      value |-> u.tracker.ninety_day_highs[symbol]] :
         u \in IF tr.ninety_day_highs[symbol] = None
               THEN update_ninety_day_high_low(tr, symbol)
               ELSE Cached(tr)}

\* PriceTracker.get_ninety_day_low
get_ninety_day_low(tr, symbol) ==
    {[tracker |-> u.tracker, raised |-> u.raised, fetched |-> u.fetched,
      value |-> u.tracker.ninety_day_lows[symbol]] :
         u \in IF tr.ninety_day_lows[symbol] = None
               THEN update_ninety_day_high_low(tr, symbol)
               ELSE Cached(tr)}


(* ------------------------------ alert_manager.py ---------------------- *)

\* PriceEvent
PriceEvent(symbol, price, time, event_type) ==
    [symbol |-> symbol, price |-> price, time |-> time,
     event_type |-> event_type]

\* the five lists of the AlertManager, as one record
Buckets ==
    [ath_events |-> ath_events,
     atl_events |-> atl_events,
     ninety_day_ath_events |-> ninety_day_ath_events,
     ninety_day_atl_events |-> ninety_day_atl_events,
     price_movement_events |-> price_movement_events]

EmptyBuckets ==
    [ath_events |-> <<>>,
     atl_events |-> <<>>,
     ninety_day_ath_events |-> <<>>,
     ninety_day_atl_events |-> <<>>,
     price_movement_events |-> <<>>]

BucketNames == DOMAIN EmptyBuckets

\* _record_event: event_type_mapping.get(event.event_type)
event_type_mapping(event_type) ==
    CASE event_type = "ATH" -> Some("ath_events")
      [] event_type = "ATL" -> Some("atl_events")
      [] event_type = "90-Day ATH" -> Some("ninety_day_ath_events")
      [] event_type = "90-Day ATL" -> Some("ninety_day_atl_events")
      [] event_type = "Price Movement" -> Some("price_movement_events")
      [] OTHER -> None

\* _record_event: `if event_list: event_list.append(event)`
record_event(b, event) ==
    LET event_list == event_type_mapping(event.event_type)
    IN  IF event_list # None /\ Truthy(b[event_list[1]])
        THEN [b EXCEPT ![event_list[1]] = Append(@, event)]
        ELSE b

\* an exception leaves send_notification
Raises(r) == r.outcome = "raised"

\* AlertManager.send_alert: st is [ledger, buckets]; the notification is
\* sent first, and the event is recorded only if that did not raise
send_alert(st, alert_type, symbol, price, now, t) ==
    LET subject == AlertSubject(alert_type, symbol)
        r == send_notification(st.ledger, subject, now, t)
        event == PriceEvent(symbol, price, now, alert_type)
    IN  [ledger |-> r.ledger,
         buckets |-> IF Raises(r) THEN st.buckets
                     ELSE record_event(st.buckets, event),
         raised |-> Raises(r),
         subject |-> subject,
         event |-> event,
         sent |-> r]

\* one line of the digest body
Line(text, symbol, price, time) ==
    [text |-> text, symbol |-> symbol, price |-> price, time |-> time]

TextLine(text) == Line(text, "", 0, 0)

\* f"Symbol: {event.symbol}, Price: {event.price}, Time: {event.time}\n"
EventLine(event) == Line("Symbol/Price/Time", event.symbol, event.price, event.time)

NoEventsLine == TextLine("No significant events occurred in the past 24 hours.")

DigestHeader == << TextLine("Daily Digest"), TextLine("") >>

\* the (list, heading) pairs _compile_digest_body walks, in its order
DigestSections ==
    << <<"ath_events", "All-Time Highs:">>,
       <<"atl_events", "All-Time Lows:">>,
       <<"ninety_day_ath_events", "90-Day Highs:">>,
       <<"ninety_day_atl_events", "90-Day Lows:">>,
       <<"price_movement_events", "Significant Price Movements:">> >>

RECURSIVE compile_sections(_, _, _)
compile_sections(b, i, body) ==
    IF i > Len(DigestSections) THEN body
    ELSE LET event_list == b[DigestSections[i][1]]
             section == << TextLine(DigestSections[i][2]) >>
                          \o [k \in 1..Len(event_list) |-> EventLine(event_list[k])]
                          \o << TextLine("") >>
         IN  compile_sections(b, i + 1,
                 IF Truthy(event_list) THEN body \o section ELSE body)

\* mutant of _compile_digest_body: the emptiness test looks at the first
\* list only
compile_digest_body_first_list_only(b) ==
    LET body == compile_sections(b, 1, DigestHeader)
    IN  IF ~Truthy(b.ath_events) THEN Append(body, NoEventsLine) ELSE body

\* AlertManager._compile_digest_body
compile_digest_body(b) ==
    LET body == compile_sections(b, 1, DigestHeader)
    IN  IF body = DigestHeader THEN Append(body, NoEventsLine) ELSE body

\* AlertManager._clear_recorded_events
clear_recorded_events(b) ==
    [b EXCEPT !.ath_events = <<>>,
              !.atl_events = <<>>,
              !.ninety_day_ath_events = <<>>,
              !.ninety_day_atl_events = <<>>,
              !.price_movement_events = <<>>]

\* mutant of send_daily_digest: the lists are cleared after the send instead
\* of in `finally`, so a send that raises skips the clearing
send_daily_digest_clear_after_send(st, now, t) ==
    LET subject == DigestSubject(now)
        body == compile_digest_body(st.buckets)
        r == send_notification(st.ledger, subject, now, t)
    IN  [ledger |-> r.ledger,
         buckets |-> IF Raises(r) THEN st.buckets
                     ELSE clear_recorded_events(st.buckets),
         raised |-> Raises(r),
         subject |-> subject,
         body |-> body,
         sent |-> r]

\* AlertManager.send_daily_digest: compile, send, and clear in `finally`
send_daily_digest(st, now, t) ==
    LET subject == DigestSubject(now)
        body == compile_digest_body(st.buckets)
        r == send_notification(st.ledger, subject, now, t)
    IN  [ledger |-> r.ledger,
         buckets |-> clear_recorded_events(st.buckets),
         raised |-> Raises(r),
         subject |-> subject,
         body |-> body,
         sent |-> r]

(* ------------------------------ websocket_handler.py ------------------ *)

\* `x or 0` for an Optional[float]
OrZero(x) == IF x = None THEN 0 ELSE x[1]

\* `price < (x or float("inf"))`
BelowOrInf(price, x) == IF x = None \/ x[1] = 0 THEN TRUE ELSE price < x[1]

\* mutant of AtThreshold: a change of exactly the threshold does not count
AtThreshold_strictly_above(change) ==
    Abs(change.num) > NOTIFICATION_THRESHOLD * change.den

\* abs(price_change) >= NOTIFICATION_THRESHOLD
AtThreshold(change) ==
    Abs(change.num) >= NOTIFICATION_THRESHOLD * change.den

\* check_and_notify at its first line: the objects it works on and its
\* local variables
Entered(st) ==
    [tracker |-> st.tracker, ledger |-> st.ledger, buckets |-> st.buckets,
     raised |-> FALSE, alerts |-> <<>>, change |-> None,
     ath |-> None, atl |-> None, ninety_day_high |-> None,
     ninety_day_low |-> None, fetches |-> <<>>, classified |-> FALSE]

\* one getter call: whether the dict of its kind held the symbol when it was
\* made, and whether it called the historical-data collaborator
GetterCall(getter, cache, symbol, g) ==
    [getter |-> getter, cached |-> cache[symbol] # None,
     fetched |-> g.fetched]

\* await self.alert_manager.send_alert(alert_type, symbol, current_price)
alert(x, alert_type, symbol, current_price, now) ==
    {LET r == send_alert([ledger |-> x.ledger, buckets |-> x.buckets],
                         alert_type, symbol, current_price, now, t)
     IN  [x EXCEPT !.ledger = r.ledger, !.buckets = r.buckets,
                   !.raised = r.raised,
                   !.alerts = Append(@, [alert_type |-> alert_type,
                                         subject |-> r.subject,
                                         event |-> r.event,
                                         raised |-> r.raised,
                                         sent |-> r.sent])] :
         t \in TransportOutcomes}

\* mutant of classify: a price equal to a cached high counts as above it
classify_at_or_above(x, symbol, current_price, now) ==
    IF current_price >= OrZero(x.ath)
    THEN alert(x, "ATH", symbol, current_price, now)
    ELSE IF BelowOrInf(current_price, x.atl)
    THEN alert(x, "ATL", symbol, current_price, now)
    ELSE IF current_price >= OrZero(x.ninety_day_high)
    THEN alert(x, "90-Day ATH", symbol, current_price, now)
    ELSE IF BelowOrInf(current_price, x.ninety_day_low)
    THEN alert(x, "90-Day ATL", symbol, current_price, now)
    ELSE {x}

\* the if/elif chain over the four extrema
classify(x, symbol, current_price, now) ==
    IF current_price > OrZero(x.ath)
    THEN alert(x, "ATH", symbol, current_price, now)
    ELSE IF BelowOrInf(current_price, x.atl)
    THEN alert(x, "ATL", symbol, current_price, now)
    ELSE IF current_price > OrZero(x.ninety_day_high)
    THEN alert(x, "90-Day ATH", symbol, current_price, now)
    ELSE IF BelowOrInf(current_price, x.ninety_day_low)
    THEN alert(x, "90-Day ATL", symbol, current_price, now)
    ELSE {x}

\* WebSocketHandler.check_and_notify: every way the call can end, with the
\* objects as it leaves them; x.raised says that an exception left it, and
\* then no later statement runs
check_and_notify(st, symbol, current_price, now) ==
    LET u == update_price_change(st.tracker.price_changes, symbol,
                                 current_price, now, DEFAULT_TIMEFRAME)
        x0 == [Entered(st) EXCEPT
                  !.tracker.price_changes = u.price_changes,
                  !.change = u.change]
        s1 == IF u.change # None /\ AtThreshold(u.change[1])
              THEN alert(x0, "Price Movement", symbol, current_price, now)
              ELSE {x0}
        s2 == UNION {
                 IF x.raised THEN {x} ELSE
                 {[x EXCEPT !.tracker = g.tracker, !.raised = g.raised,
                            !.ath = g.value,
                            !.fetches = Append(@, GetterCall("get_all_time_high",
                                x.tracker.all_time_highs, symbol, g))] :
                      g \in get_all_time_high(x.tracker, symbol)} :
                 x \in s1}
        s3 == UNION {
                 IF x.raised THEN {x} ELSE
                 {[x EXCEPT !.tracker = g.tracker, !.raised = g.raised,
                            !.atl = g.value,
                            !.fetches = Append(@, GetterCall("get_all_time_low",
                                x.tracker.all_time_lows, symbol, g))] :
                      g \in get_all_time_low(x.tracker, symbol)} :
                 x \in s2}
        s4 == UNION {
                 IF x.raised THEN {x} ELSE
                 {[x EXCEPT !.tracker = g.tracker, !.raised = g.raised,
                            !.ninety_day_high = g.value,
                            !.fetches = Append(@, GetterCall("get_ninety_day_high",
                                x.tracker.ninety_day_highs, symbol, g))] :
                      g \in get_ninety_day_high(x.tracker, symbol)} :
                 x \in s3}
        s5 == UNION {
                 IF x.raised THEN {x} ELSE
                 {[x EXCEPT !.tracker = g.tracker, !.raised = g.raised,
                            !.ninety_day_low = g.value,
                            !.fetches = Append(@, GetterCall("get_ninety_day_low",
                                x.tracker.ninety_day_lows, symbol, g))] :
                      g \in get_ninety_day_low(x.tracker, symbol)} :
                 x \in s4}
    IN  UNION {IF x.raised THEN {x}
               ELSE classify([x EXCEPT !.classified = TRUE], symbol,
                             current_price, now) : x \in s5}

\* self.connection_timeout: int = 600
connection_timeout == 600
\* check_connection: await asyncio.sleep(60)
CHECK_PERIOD == 60

\* futures_exchange_info()["symbols"] as the exchange lists them
ExchangeListing ==
    {[symbol |-> "BTCUSDT", status |-> "TRADING"],
     [symbol |-> "ETHUSDT", status |-> "BREAK"],
     [symbol |-> "BTCBUSD", status |-> "TRADING"]}

\* every answer of api_client.client.futures_exchange_info
futures_exchange_info ==
    {[raised |-> FALSE, symbols |-> ExchangeListing],
     [raised |-> TRUE, symbols |-> {}]}

\* symbol["symbol"].endswith("USDT"): the names in Symbols do, BTCBUSD does
\* not
endswith_USDT(symbol) == symbol \in Symbols

\* WebSocketHandler.initialize_symbols: all_usdt_symbols afterwards
initialize_symbols(soi, usdt, info) ==
    IF soi # None THEN usdt
    ELSE IF info.raised THEN {}
    ELSE {y.symbol : y \in {z \in info.symbols :
                               endswith_USDT(z.symbol)
                                   /\ z.status = "TRADING"}}

\* the value of "p" in a ticker entry: the text of a number, or other text
Number(n) == [numeric |-> TRUE, value |-> n]
NotANumber == [numeric |-> FALSE, value |-> 0]

\* float(p): None stands for the ValueError of a text that is no number
to_float(p) == IF p.numeric THEN Some(p.value) ELSE None

\* one entry of a !markPrice@arr frame
Entry(symbol, p) == [s |-> symbol, p |-> p]

\* what arrives on the socket: a binary frame, text that is not JSON, JSON
\* that is not a list, or a list of ticker entries
BinaryFrame == [kind |-> "bytes", data |-> <<>>]
NotJson == [kind |-> "not_json", data |-> <<>>]
JsonObject == [kind |-> "json_object", data |-> <<>>]
TickerList(entries) == [kind |-> "list", data |-> entries]

\* process_message and what it calls, as far as it got: the objects, the
\* exception that left it ("none" if it returned), what was done with each
\* entry it reached, and the sleeps its notifications awaited
Processing(st) ==
    [st |-> st, raised |-> "none", ticks |-> <<>>, sleeps |-> <<>>]

Tick(entry, action) == [entry |-> entry, action |-> action]

RECURSIVE alert_sleeps(_)
alert_sleeps(alerts) ==
    IF alerts = <<>> THEN <<>>
    ELSE Head(alerts).sent.sleeps \o alert_sleeps(Tail(alerts))

\* the exception that left check_and_notify: the one send_alert re-raised,
\* or the one of the historical-data call
raised_by(x) ==
    IF ~x.raised THEN "none"
    ELSE IF x.alerts # <<>> /\ x.alerts[Len(x.alerts)].raised
    THEN "send_alert"
    ELSE "get_historical_data"

\* mutant of entry_action: a price of zero is handed on as well
entry_action_accepts_zero(entry, symbols_to_track) ==
    IF entry.s \notin symbols_to_track THEN "untracked"
    ELSE IF to_float(entry.p) = None THEN "ValueError"
    ELSE IF to_float(entry.p)[1] >= 0 THEN "checked"
    ELSE "not_positive"

\* the body of the loop over the entries: `if symbol in symbols_to_track`,
\* float(ticker_data.get("p", 0)), `if current_price > 0`
entry_action(entry, symbols_to_track) ==
    IF entry.s \notin symbols_to_track THEN "untracked"
    ELSE IF to_float(entry.p) = None THEN "ValueError"
    ELSE IF to_float(entry.p)[1] > 0 THEN "checked"
    ELSE "not_positive"

\* one iteration of `for ticker_data in data`
process_entry(y, entry, symbols_to_track, now) ==
    LET action == entry_action(entry, symbols_to_track)
    IN  IF action = "checked"
        THEN {[st |-> [tracker |-> x.tracker, ledger |-> x.ledger,
                       buckets |-> x.buckets],
               raised |-> raised_by(x),
               ticks |-> Append(y.ticks, Tick(entry, action)),
               sleeps |-> y.sleeps \o alert_sleeps(x.alerts)] :
                 x \in check_and_notify(y.st, entry.s, to_float(entry.p)[1],
                                        now)}
        ELSE {[y EXCEPT !.raised = IF action = "ValueError" THEN action
                                   ELSE "none",
                        !.ticks = Append(@, Tick(entry, action))]}

\* WebSocketHandler.process_message on a list, from entry i on; an
\* exception ends the loop over the entries
RECURSIVE process_message(_, _, _, _, _)
process_message(ys, data, i, symbols_to_track, now) ==
    IF i > Len(data) THEN ys
    ELSE process_message(
             UNION {IF y.raised # "none" THEN {y}
                    ELSE process_entry(y, data[i], symbols_to_track, now) :
                        y \in ys},
             data, i + 1, symbols_to_track, now)

\* the body of `async for message in websocket`: a binary frame is answered
\* with a pong, a JSONDecodeError is caught and logged, process_message logs
\* data that is not a list
handle_message(st, message, symbols_to_track, now) ==
    IF message.kind = "list"
    THEN process_message({Processing(st)}, message.data, 1,
                         symbols_to_track, now)
    ELSE {Processing(st)}

(* ------------------------------ history variables --------------------- *)

\* one send_notification call, as the handler that made it saw it
CallRecord(subject, now, r) ==
    [subject |-> subject, time |-> now, outcome |-> r.outcome,
     primary |-> r.primary, secondary |-> r.secondary, sleeps |-> r.sleeps,
     since_delivered |-> IF g_delivered_at[subject] = None THEN None
                         ELSE Some(now - g_delivered_at[subject][1])]

Delivered(r) == r.outcome \in {"sent", "sent_secondary"}

\* g_delivered_at after the send_notification calls `calls` made at `now`
DeliveredAfter(calls, now) ==
    [s \in Subjects |->
        IF \E i \in 1..Len(calls) :
               calls[i].subject = s /\ Delivered(calls[i])
        THEN Some(now) ELSE g_delivered_at[s]]

NoOp ==
    [op |-> "none", alert_type |-> "", symbol |-> "", price |-> 0,
     time |-> 0, raised |-> FALSE, calls |-> <<>>, alerts |-> <<>>,
     before |-> EmptyBuckets, after |-> EmptyBuckets, body |-> <<>>,
     pending |-> <<>>, change |-> None, ath |-> None, atl |-> None,
     ninety_day_high |-> None, ninety_day_low |-> None,
     fetches |-> <<>>, classified |-> FALSE,
     tracker_before |-> NewTracker, later_in_run |-> FALSE,
     subject |-> DigestSubject(0), entry_before |-> None,
     transport |-> [fails |-> 0, secondary_ok |-> TRUE], trace |-> <<>>,
     ledger_before |-> [s \in Subjects |-> None],
     previous |-> [op |-> "none", subject |-> DigestSubject(0), time |-> 0,
                   raised |-> FALSE]]

\* the reconnect loop before its first iteration: connections opened,
\* connection failures since the last opened connection, frames received on
\* the current connection, the backoff sleeps so far, how the last
\* connection attempt or session ended (with the exception that ended it and
\* the frames its connection had carried), and whether the loop was left
\* because the retries were exhausted
NoLoop ==
    [connects |-> 0, failures |-> 0, frames |-> 0, sleeps |-> <<>>,
     last |-> [kind |-> "none", retry_before |-> 0, k |-> 0,
               exit_requested |-> FALSE, exc |-> "none", frames |-> 0],
     exhausted |-> FALSE, shutdown |-> FALSE, cancelled |-> None]

\* no connection yet; a connection is "open" or "closed" and holds the frames
\* that arrived and were not taken yet
NoConnection == [state |-> "none", inbox |-> <<>>]

\* handle_websocket is not running; while it runs: its position, its local
\* symbols_to_track, the notification sleeps the receive loop still awaits
\* and where it goes after them
Idle ==
    [pc |-> "idle", symbols_to_track |-> {}, sleeps |-> <<>>,
     after |-> "idle"]

\* connection_check_task before it is created
NoTask == [pc |-> "none", wake |-> 0]

\* the objects as __init__ leaves them
NewState ==
    [tracker |-> NewTracker, ledger |-> [s \in Subjects |-> None],
     buckets |-> EmptyBuckets]

\* the last frame the receive loop took: the frame, the exception that ended
\* its handling, what was done with its entries, the objects before it, and
\* whether the receive loop ended with it
NoFrame ==
    [message |-> [kind |-> "none", data |-> <<>>], raised |-> "none",
     ticks |-> <<>>, before |-> NewState, symbols_to_track |-> {},
     loop_ended |-> FALSE]

\* the stream before the first connection: connections handled, when the
\* current one was opened, the frames taken on it and the time of the last
\* of them, and the watchdog tasks of earlier connections that were still
\* running when the next handle_websocket call created its own
NoStream ==
    [connections |-> 0, opened_at |-> 0, frames |-> 0,
     last_frame_at |-> None, last |-> NoFrame, orphans |-> 0]

\* the digests of the scheduler: when each wait was computed and when the
\* send_daily_digest call that followed it was made
NoDigests == [computed_at |-> None, sends |-> <<>>]

\* no send_daily_digest call is under way; a call that is suspended in
\* `await self.notification_handler.send_notification(subject, body)` holds
\* its local `now` and `body`, and the events the body was compiled for
NoDigestCall == [pc |-> "idle", now |-> 0, body |-> <<>>, pending |-> <<>>]

(* ------------------------------ the program --------------------------- *)

State ==
    [tracker |-> Tracker, ledger |-> last_notification_time,
     buckets |-> Buckets]

\* WebSocketHandler.__init__ apart from the allow-list, and the digest
\* scheduler before run() has created its task
NewHandler ==
    /\ all_usdt_symbols = {}
    /\ last_message_time = None
    /\ websocket = NoConnection
    /\ handler = Idle
    /\ connection_check_task = NoTask
    /\ g_stream = NoStream
    /\ next_run = None
    /\ g_digest = NoDigests
    /\ digest_call = NoDigestCall

SetBuckets(b) ==
    /\ ath_events' = b.ath_events
    /\ atl_events' = b.atl_events
    /\ ninety_day_ath_events' = b.ninety_day_ath_events
    /\ ninety_day_atl_events' = b.ninety_day_atl_events
    /\ price_movement_events' = b.price_movement_events

SetTracker(tr) ==
    /\ price_changes' = tr.price_changes
    /\ all_time_highs' = tr.all_time_highs
    /\ all_time_lows' = tr.all_time_lows
    /\ ninety_day_highs' = tr.ninety_day_highs
    /\ ninety_day_lows' = tr.ninety_day_lows

\* the objects as CryptoPriceTracker.__init__ builds them
NewObjects ==
    /\ price_changes = NewTracker.price_changes
    /\ all_time_highs = NewTracker.all_time_highs
    /\ all_time_lows = NewTracker.all_time_lows
    /\ ninety_day_highs = NewTracker.ninety_day_highs
    /\ ninety_day_lows = NewTracker.ninety_day_lows
    /\ last_notification_time = [s \in Subjects |-> None]
    /\ ath_events = <<>>
    /\ atl_events = <<>>
    /\ ninety_day_ath_events = <<>>
    /\ ninety_day_atl_events = <<>>
    /\ price_movement_events = <<>>
    /\ g_delivered_at = [s \in Subjects |-> None]
    /\ g_raised = <<>>
    /\ g_samples = [s \in Symbols |-> <<>>]
    /\ g_run = [s \in Symbols |-> None]
    /\ g_calls = 0
    /\ g_last = NoOp
    /\ retry_count = 0
    /\ should_exit = FALSE
    /\ run_pc = "loop"
    /\ digest_task = "pending"
    /\ g_loop = NoLoop
    /\ NewHandler

\* the program started at clock 0 with SYMBOLS_OF_INTEREST set
Init ==
    /\ clock = 0
    /\ symbols_of_interest = Some(TrackedSymbols)
    /\ config = DefaultConfig
    /\ NewObjects

\* time passes between two handlers
AdvanceClock(steps) ==
    \E d \in steps :
        /\ clock + d <= MaxClock
        /\ clock' = clock + d
        /\ UNCHANGED << tracker_vars, alert_vars, g_delivered_at, g_raised,
                        g_samples, g_run, g_calls, g_last, run_vars,
                        stream_vars, sched_vars >>

\* the events of the alerts that returned normally
RaisedEvents(alerts) ==
    LET ok == SelectSeq(alerts, LAMBDA a : ~a.raised)
    IN  [i \in 1..Len(ok) |-> ok[i].event]

\* g_run after a tick at `price` that read the all-time high `ath`: a run
\* starts with a tick above the cached all-time high and goes on while the
\* ticks stay above that value and do not rise above the first tick
LaterInRun(run, price) ==
    run # None /\ price > run[1].base /\ price <= run[1].first

RunAfter(run, price, ath) ==
    IF LaterInRun(run, price) THEN run
    ELSE IF ath # None /\ price > ath[1]
    THEN Some([base |-> ath[1], first |-> price])
    ELSE None

\* process_message awaits check_and_notify(symbol, current_price) for a
\* tracked symbol and a positive price
CheckAndNotify(symbols, max_calls) ==
    /\ g_calls < max_calls
    /\ \E symbol \in symbols, current_price \in Prices :
      \E x \in check_and_notify(State, symbol, current_price, clock) :
        LET calls == [i \in 1..Len(x.alerts) |->
                         CallRecord(x.alerts[i].subject, clock,
                                    x.alerts[i].sent)]
            looked_up == x.ath # None
        IN  /\ SetTracker(x.tracker)
            /\ last_notification_time' = x.ledger
            /\ SetBuckets(x.buckets)
            /\ g_delivered_at' = DeliveredAfter(calls, clock)
            /\ g_raised' = g_raised \o RaisedEvents(x.alerts)
            /\ g_samples' = [g_samples EXCEPT
                   ![symbol] = Append(@, Sample(current_price, clock))]
            /\ g_run' = IF looked_up
                        THEN [g_run EXCEPT ![symbol] =
                                 RunAfter(@, current_price, x.ath)]
                        ELSE g_run
            /\ g_calls' = g_calls + 1
            /\ g_last' = [NoOp EXCEPT
                   !.op = "check_and_notify", !.symbol = symbol,
                   !.price = current_price, !.time = clock,
                   !.raised = x.raised, !.calls = calls,
                   !.alerts = [i \in 1..Len(x.alerts) |->
                                  x.alerts[i].alert_type],
                   !.before = Buckets, !.after = x.buckets,
                   !.pending = g_raised, !.change = x.change,
                   !.ath = x.ath, !.atl = x.atl,
                   !.ninety_day_high = x.ninety_day_high,
                   !.ninety_day_low = x.ninety_day_low,
                   !.fetches = x.fetches, !.classified = x.classified,
                   !.tracker_before = Tracker,
                   !.later_in_run = looked_up
                       /\ LaterInRun(g_run[symbol], current_price)]
            /\ UNCHANGED << clock, run_vars, stream_vars, sched_vars >>

\* a caller awaits price_tracker.update_price_change(symbol, current_price)
UpdatePriceChange(max_calls) ==
    \E symbol \in Symbols, current_price \in Prices :
        LET u == update_price_change(price_changes, symbol, current_price,
                                     clock, DEFAULT_TIMEFRAME)
        IN  /\ g_calls < max_calls
            /\ price_changes' = u.price_changes
            /\ g_samples' = [g_samples EXCEPT
                   ![symbol] = Append(@, Sample(current_price, clock))]
            /\ g_calls' = g_calls + 1
            /\ g_last' = [NoOp EXCEPT
                   !.op = "update_price_change", !.symbol = symbol,
                   !.price = current_price, !.time = clock,
                   !.change = u.change, !.tracker_before = Tracker]
            /\ UNCHANGED << clock, all_time_highs, all_time_lows,
                            ninety_day_highs, ninety_day_lows, alert_vars,
                            g_delivered_at, g_raised, g_run, run_vars,
                            stream_vars, sched_vars >>

\* a caller awaits alert_manager.send_alert(alert_type, symbol, price)
SendAlert(max_calls) ==
    \E alert_type \in AlertTypes, symbol \in Symbols, price \in AlertPrices,
       t \in TransportOutcomes :
        LET r == send_alert([ledger |-> last_notification_time,
                             buckets |-> Buckets],
                            alert_type, symbol, price, clock, t)
            calls == << CallRecord(r.subject, clock, r.sent) >>
        IN  /\ g_calls < max_calls
            /\ last_notification_time' = r.ledger
            /\ SetBuckets(r.buckets)
            /\ g_delivered_at' = DeliveredAfter(calls, clock)
            /\ g_raised' = IF r.raised THEN g_raised
                           ELSE Append(g_raised, r.event)
            /\ g_calls' = g_calls + 1
            /\ g_last' = [NoOp EXCEPT
                   !.op = "send_alert", !.alert_type = alert_type,
                   !.symbol = symbol, !.price = price, !.time = clock,
                   !.raised = r.raised, !.calls = calls,
                   !.alerts = << alert_type >>,
                   !.before = Buckets, !.after = r.buckets,
                   !.pending = g_raised]
            /\ UNCHANGED << clock, tracker_vars, g_samples, g_run, run_vars,
                            stream_vars, sched_vars >>

\* alert_manager.send_daily_digest() is awaited with the servers answering t
AwaitSendDailyDigest(t) ==
    LET r == send_daily_digest([ledger |-> last_notification_time,
                                buckets |-> Buckets], clock, t)
        calls == << CallRecord(r.subject, clock, r.sent) >>
    IN  /\ last_notification_time' = r.ledger
        /\ SetBuckets(r.buckets)
        /\ g_delivered_at' = DeliveredAfter(calls, clock)
        /\ g_raised' = <<>>
        /\ g_calls' = g_calls + 1
        /\ g_last' = [NoOp EXCEPT
               !.op = "send_daily_digest", !.time = clock,
               !.raised = r.raised, !.calls = calls,
               !.before = Buckets, !.after = r.buckets,
               !.body = r.body, !.pending = g_raised]
        /\ UNCHANGED << clock, tracker_vars, g_samples, g_run >>

\* schedule_daily_digest awaits alert_manager.send_daily_digest()
SendDailyDigest(max_calls) ==
    \E t \in TransportOutcomes :
        /\ g_calls < max_calls
        /\ AwaitSendDailyDigest(t)
        /\ UNCHANGED << run_vars, stream_vars, sched_vars >>

\* the subjects the notification handler is called with on its own
NotifySubjects ==
    {AlertSubject("ATH", "BTCUSDT"), AlertSubject("ATL", "BTCUSDT")}

\* a caller awaits notification_handler.send_notification(subject, body)
SendNotification(max_calls) ==
    \E subject \in NotifySubjects, t \in AllTransportOutcomes :
        LET r == send_notification(last_notification_time, subject, clock, t)
            calls == << CallRecord(subject, clock, r) >>
        IN  /\ g_calls < max_calls
            /\ last_notification_time' = r.ledger
            /\ g_delivered_at' = DeliveredAfter(calls, clock)
            /\ g_calls' = g_calls + 1
            /\ g_last' = [NoOp EXCEPT
                   !.op = "send_notification", !.time = clock,
                   !.raised = Raises(r), !.calls = calls,
                   !.subject = subject,
                   !.entry_before = last_notification_time[subject],
                   !.transport = t, !.trace = r.trace,
                   !.ledger_before = last_notification_time,
                   !.previous = [op |-> g_last.op,
                                 subject |-> g_last.subject,
                                 time |-> g_last.time,
                                 raised |-> g_last.raised]]
            /\ UNCHANGED << clock, tracker_vars, ath_events, atl_events,
                            ninety_day_ath_events, ninety_day_atl_events,
                            price_movement_events, g_raised, g_samples,
                            g_run, run_vars, stream_vars, sched_vars >>

(* ------------------------------ main.py: run() ------------------------ *)

\* mutant of wait_time: the first delay is the initial delay itself
wait_time_from_initial(count) ==
    Min(INITIAL_RETRY_DELAY * (2 ^ (count - 1)), MAX_RETRY_DELAY)

\* min(INITIAL_RETRY_DELAY * (2**retry_count), MAX_RETRY_DELAY)
wait_time(count) ==
    Min(INITIAL_RETRY_DELAY * (2 ^ count), MAX_RETRY_DELAY)

\* how a connection attempt or a session ended, for the history
LoopEvent(kind) ==
    [kind |-> kind, retry_before |-> retry_count,
     k |-> g_loop.failures + 1, exit_requested |-> should_exit,
     exc |-> "none", frames |-> g_loop.frames]

\* what websockets.connect raises: the network is unreachable, or the server
\* answers the handshake with a status other than 101; both are subclasses
\* of Exception and neither is a ConnectionClosed
ConnectExceptions == {"OSError", "InvalidStatusCode"}

\* a connection attempt that raised exc
ConnectFailed(exc) == [LoopEvent("connect_failed") EXCEPT !.exc = exc]

\* everything run() does not touch
RunFrame ==
    UNCHANGED << clock, tracker_vars, alert_vars, g_delivered_at, g_raised,
                 g_samples, g_run, g_calls, g_last, stream_vars, sched_vars >>

\* The statements after the while loop: digest_task.cancel(), `await
\* digest_task` guarded by `except asyncio.CancelledError` only, and
\* shutdown() in `finally`.  A digest task that ended with an exception hands
\* that exception to the await, and it leaves run().
LeaveLoop(event, exhausted) ==
    /\ digest_task' = IF digest_task = "pending" THEN "cancelled"
                      ELSE digest_task
    /\ run_pc' = IF digest_task = "failed" THEN "raised" ELSE "returned"
    /\ g_loop' = [g_loop EXCEPT !.last = event, !.exhausted = exhausted,
                                !.shutdown = TRUE]
    /\ UNCHANGED << retry_count, should_exit >>

\* `while not self.should_exit.is_set()`, then websockets.connect(uri) is
\* awaited
LoopTest ==
    /\ run_pc = "loop"
    /\ IF should_exit
       THEN LeaveLoop(LoopEvent("exit_seen"), FALSE)
       ELSE /\ run_pc' = "connecting"
            /\ UNCHANGED << retry_count, should_exit, digest_task, g_loop >>
    /\ RunFrame

\* the connection is open and handle_websocket is awaited
ConnectionOpened ==
    /\ run_pc = "connecting"
    /\ g_loop.connects < MaxConnects
    /\ run_pc' = "connected"
    /\ g_loop' = [g_loop EXCEPT !.connects = @ + 1, !.failures = 0,
                                !.frames = 0,
                                !.last = [LoopEvent("opened") EXCEPT
                                             !.frames = 0]]
    /\ UNCHANGED << retry_count, should_exit, digest_task >>
    /\ RunFrame

\* websockets.connect raises (refused, handshake rejected, timeout): the
\* `except Exception` branch, whatever the exception is
ConnectionFailed(exceptions) ==
    \E exc \in exceptions :
        /\ run_pc = "connecting"
        /\ IF should_exit
           THEN LeaveLoop(ConnectFailed(exc), FALSE)
           ELSE IF retry_count + 1 > config.MAX_RETRIES
           THEN /\ retry_count' = retry_count + 1
                /\ digest_task' = IF digest_task = "pending" THEN "cancelled"
                                  ELSE digest_task
                /\ run_pc' = IF digest_task = "failed" THEN "raised"
                             ELSE "returned"
                /\ g_loop' = [g_loop EXCEPT
                       !.failures = @ + 1,
                       !.last = ConnectFailed(exc),
                       !.exhausted = TRUE, !.shutdown = TRUE]
                /\ UNCHANGED should_exit
           ELSE /\ retry_count' = retry_count + 1
                /\ run_pc' = "sleeping"
                /\ g_loop' = [g_loop EXCEPT
                       !.failures = @ + 1,
                       !.last = ConnectFailed(exc),
                       !.sleeps = Append(@, [k |-> g_loop.failures + 1,
                                             wait |-> wait_time(retry_count + 1)])]
                /\ UNCHANGED << should_exit, digest_task >>
        /\ RunFrame

\* `async for message in websocket` hands a frame to the receive loop of
\* handle_websocket; run() stays at its await
FrameReceived ==
    /\ run_pc = "connected"
    /\ g_loop.frames < MaxRunFrames
    /\ g_loop' = [g_loop EXCEPT !.frames = @ + 1]
    /\ UNCHANGED << retry_count, should_exit, run_pc, digest_task >>
    /\ RunFrame

\* handle_websocket returns: the peer closed the connection (ConnectionClosed
\* is caught inside handle_websocket, as is every Exception of the receive
\* loop), so `retry_count = 0` runs and the loop goes round without a sleep,
\* whether or not the connection carried a frame
SessionReturned ==
    /\ run_pc = "connected"
    /\ retry_count' = 0
    /\ run_pc' = "loop"
    /\ g_loop' = [g_loop EXCEPT !.last = LoopEvent("closed_by_peer")]
    /\ UNCHANGED << should_exit, digest_task >>
    /\ RunFrame

\* the task is cancelled at shutdown while handle_websocket is awaited: the
\* `except asyncio.CancelledError` branch, which breaks because should_exit
\* is set
SessionCancelled ==
    /\ run_pc = "connected"
    /\ should_exit
    /\ LeaveLoop(LoopEvent("cancelled"), FALSE)
    /\ RunFrame

\* The task running run() is cancelled while websockets.connect or
\* handle_websocket is awaited, whoever cancels it: the CancelledError is
\* caught by `except asyncio.CancelledError`, which breaks only if
\* should_exit is set; otherwise it logs "Exiting..." and the while loop goes
\* round (retry_count is neither reset nor incremented, and nothing is
\* slept).  g_loop.cancelled keeps the connections opened up to then.
RunCancelled ==
    /\ run_pc \in {"connecting", "connected"}
    /\ g_loop.cancelled = None
    /\ IF should_exit
       THEN /\ digest_task' = IF digest_task = "pending" THEN "cancelled"
                              ELSE digest_task
            /\ run_pc' = IF digest_task = "failed" THEN "raised"
                         ELSE "returned"
            /\ g_loop' = [g_loop EXCEPT !.last = LoopEvent("cancelled"),
                                        !.shutdown = TRUE,
                                        !.cancelled = Some(g_loop.connects)]
       ELSE /\ run_pc' = "loop"
            /\ g_loop' = [g_loop EXCEPT !.last = LoopEvent("cancelled"),
                                        !.cancelled = Some(g_loop.connects)]
            /\ UNCHANGED digest_task
    /\ UNCHANGED << retry_count, should_exit >>
    /\ RunFrame

\* asyncio.sleep(wait_time) is over
BackoffOver ==
    /\ run_pc = "sleeping"
    /\ run_pc' = "loop"
    /\ g_loop' = [g_loop EXCEPT !.last = LoopEvent("backoff_over")]
    /\ UNCHANGED << retry_count, should_exit, digest_task >>
    /\ RunFrame

\* the task is cancelled at shutdown during the backoff sleep: the
\* CancelledError leaves the except block and run(), through `finally`
BackoffCancelled ==
    /\ run_pc = "sleeping"
    /\ should_exit
    /\ run_pc' = "raised"
    /\ g_loop' = [g_loop EXCEPT !.last = LoopEvent("cancelled"),
                                !.shutdown = TRUE]
    /\ UNCHANGED << retry_count, should_exit, digest_task >>
    /\ RunFrame

\* CryptoPriceTracker.signal_handler
SignalHandler ==
    /\ run_pc \notin {"returned", "raised"}
    /\ ~should_exit
    /\ should_exit' = TRUE
    /\ UNCHANGED << retry_count, run_pc, digest_task, g_loop >>
    /\ RunFrame

\* schedule_daily_digest wakes from its sleep: it sends the digest unless
\* should_exit is set; an exception of send_daily_digest is not caught (only
\* CancelledError is) and ends the task
ScheduleDailyDigest ==
    /\ digest_task = "pending"
    /\ run_pc \notin {"returned", "raised"}
    /\ g_calls < MaxDigests
    /\ IF should_exit
       THEN /\ digest_task' = "finished"
            /\ g_calls' = g_calls + 1
            /\ UNCHANGED << clock, tracker_vars, alert_vars, g_delivered_at,
                            g_raised, g_samples, g_run, g_last >>
       ELSE \E t \in TransportOutcomes :
               /\ AwaitSendDailyDigest(t)
               /\ digest_task' = IF g_last'.raised THEN "failed"
                                 ELSE "pending"
    /\ UNCHANGED << retry_count, should_exit, run_pc, g_loop, stream_vars,
                    sched_vars >>

NextRun ==
    \/ AdvanceClock({NOTIFICATION_INTERVAL})
    \/ LoopTest
    \/ ConnectionOpened
    \/ ConnectionFailed({"OSError"})
    \/ SessionReturned
    \/ SessionCancelled
    \/ BackoffOver
    \/ BackoffCancelled
    \/ SignalHandler
    \/ ScheduleDailyDigest

\* CryptoPriceTracker.run with its digest task: the connection attempts and
\* sessions end as the network decides
SpecRun == Init /\ [][NextRun]_vars

NextReconnect ==
    \/ LoopTest
    \/ ConnectionOpened
    \/ ConnectionFailed(ConnectExceptions)
    \/ FrameReceived
    \/ SessionReturned
    \/ SessionCancelled
    \/ BackoffOver
    \/ BackoffCancelled
    \/ SignalHandler

\* the reconnect loop of run() on its own: connection attempts fail with
\* either exception, and the connections carry frames or none
SpecReconnect == Init /\ [][NextReconnect]_vars

NextCancel ==
    \/ LoopTest
    \/ ConnectionOpened
    \/ ConnectionFailed({"OSError"})
    \/ SessionReturned
    \/ BackoffOver
    \/ SignalHandler
    \/ RunCancelled

\* the reconnect loop of run() when its task is cancelled once, before or
\* after a shutdown signal or without one
SpecCancel == Init /\ [][NextCancel]_vars

\* run() under the event loop's scheduling: the loop test runs when run() is
\* scheduled, a connection attempt ends one way or the other, and the
\* cancellation that main.shutdown delivers to every task after the signal
\* reaches run() at the await it is suspended in
RunFairness ==
    /\ WF_vars(LoopTest)
    /\ WF_vars(ConnectionOpened \/ ConnectionFailed({"OSError"}))
    /\ WF_vars(SessionCancelled)
    /\ WF_vars(BackoffCancelled)

SpecRunFair == SpecRun /\ RunFairness

(* ------------------------------ schedule_daily_digest ----------------- *)

\* mutant of next_run_at: the day is never added
next_run_at_today(now) ==
    (now \div DAY) * DAY + DAILY_DIGEST_TIME

\* next_run = datetime.combine(now.date(), digest_time), plus one day
\* `if now.time() > digest_time`
next_run_at(now) ==
    LET today == (now \div DAY) * DAY + DAILY_DIGEST_TIME
    IN  IF now % DAY > DAILY_DIGEST_TIME THEN today + DAY ELSE today

\* asyncio.sleep(wait_seconds) returns this much after the instant asked for
Lateness == {0, 1}
\* A send_daily_digest call awaits the notification handler; the clock has
\* moved by the time it returns.
SendDurations == {1, 2}
\* the time of day at which the program is started
DigestStarts ==
    {0, DAILY_DIGEST_TIME - 1, DAILY_DIGEST_TIME, DAILY_DIGEST_TIME + 1}

\* everything the scheduler's own steps do not touch
SchedFrame ==
    UNCHANGED << tracker_vars, alert_vars, g_delivered_at, g_raised,
                 g_samples, g_run, g_calls, g_last, retry_count, should_exit,
                 run_pc, g_loop, stream_vars >>

\* the head of the loop: `while not self.should_exit.is_set()`, then the
\* wait is computed from datetime.now()
ComputeWait ==
    /\ digest_task = "pending"
    /\ IF should_exit
       THEN /\ digest_task' = "finished"
            /\ UNCHANGED << next_run, g_digest >>
       ELSE /\ digest_task' = "sleeping"
            /\ next_run' = Some(next_run_at(clock))
            /\ g_digest' = [g_digest EXCEPT !.computed_at = Some(clock)]
    /\ UNCHANGED << clock, digest_call >>
    /\ SchedFrame

\* asyncio.sleep(wait_seconds) is over: the clock is at next_run or a little
\* later (a wait that is not positive ends at once)
DigestSleepOver ==
    \E late \in Lateness :
        LET woke == (IF next_run[1] > clock THEN next_run[1] ELSE clock)
                        + late
        IN  /\ digest_task = "sleeping"
            /\ woke \div DAY <= MaxDays
            /\ clock' = woke
            /\ digest_task' = "woken"
            /\ UNCHANGED << next_run, g_digest, digest_call >>
            /\ SchedFrame

\* `if not self.should_exit.is_set(): await
\* self.alert_manager.send_daily_digest()`; an exception of the call ends
\* the task
DigestCall ==
    /\ digest_task = "woken"
    /\ IF should_exit
       THEN /\ digest_task' = "pending"
            /\ next_run' = None
            /\ UNCHANGED << clock, tracker_vars, alert_vars, g_delivered_at,
                            g_raised, g_samples, g_run, g_calls, g_last,
                            g_digest >>
       ELSE \E t \in TransportOutcomes :
               /\ g_calls < MaxDigests
               /\ AwaitSendDailyDigest(t)
               /\ digest_task' = IF g_last'.raised THEN "failed"
                                 ELSE "sending"
               /\ g_digest' = [g_digest EXCEPT
                      !.sends = Append(@, [computed_at |-> g_digest.computed_at[1],
                                           at |-> clock])]
               /\ UNCHANGED next_run
    /\ UNCHANGED << retry_count, should_exit, run_pc, g_loop, stream_vars,
                    digest_call >>

\* send_daily_digest returns and the loop goes round
DigestReturns ==
    \E d \in SendDurations :
        /\ digest_task = "sending"
        /\ (clock + d) \div DAY <= MaxDays
        /\ clock' = clock + d
        /\ digest_task' = "pending"
        /\ next_run' = None
        /\ UNCHANGED << g_digest, digest_call >>
        /\ SchedFrame

\* the program is started at some time of day
InitDigest ==
    /\ clock \in DigestStarts
    /\ symbols_of_interest = Some(TrackedSymbols)
    /\ config = DefaultConfig
    /\ NewObjects

NextDigest ==
    \/ ComputeWait
    \/ DigestSleepOver
    \/ DigestCall
    \/ DigestReturns
    \/ SignalHandler

\* schedule_daily_digest, step by step, on the wall clock
SpecDigest == InitDigest /\ [][NextDigest]_vars

(* ------------------------------ handle_websocket ---------------------- *)

\* everything handle_websocket and its watchdog do not touch
StreamFrame ==
    UNCHANGED << g_delivered_at, g_raised, g_samples, g_run, g_last,
                 symbols_of_interest, config, run_vars, sched_vars >>

\* the entries of a frame that carry a positive number
RECURSIVE PositiveEntries(_)
PositiveEntries(data) ==
    IF data = <<>> THEN 0
    ELSE (IF to_float(Head(data).p) # None /\ to_float(Head(data).p)[1] > 0
          THEN 1 ELSE 0) + PositiveEntries(Tail(data))

\* the ticker entries of the feed
Tracked == Entry("BTCUSDT", Number(101))
Untracked == Entry("ETHUSDT", Number(101))
ZeroPrice == Entry("BTCUSDT", Number(0))
BadPrice == Entry("BTCUSDT", NotANumber)

\* the frames the feed sends
StreamFrames ==
    {BinaryFrame, NotJson, JsonObject,
     TickerList(<< Tracked >>),
     TickerList(<< Tracked, Tracked >>),
     TickerList(<< Untracked, ZeroPrice >>),
     TickerList(<< Untracked, Tracked >>),
     TickerList(<< BadPrice, Tracked >>)}

\* run() has opened a connection and awaits handle_websocket(websocket):
\* initialize_symbols, symbols_to_track, and the watchdog task is created and
\* starts its first sleep
OpenConnection(max_streams) ==
    \E info \in futures_exchange_info :
        LET usdt == initialize_symbols(symbols_of_interest,
                                       all_usdt_symbols, info)
        IN  /\ handler.pc \in {"idle", "returned", "cancelled"}
            /\ g_stream.connections < max_streams
            /\ all_usdt_symbols' = usdt
            /\ handler' = [pc |-> "receiving",
                           symbols_to_track |->
                               IF symbols_of_interest # None
                               THEN symbols_of_interest[1] ELSE usdt,
                           sleeps |-> <<>>, after |-> "receiving"]
            /\ websocket' = [state |-> "open", inbox |-> <<>>]
            /\ connection_check_task' =
                   [pc |-> "sleeping", wake |-> clock + connection_timeout]
            /\ g_stream' = [NoStream EXCEPT
                   !.connections = g_stream.connections + 1,
                   !.opened_at = clock,
                   !.orphans = g_stream.orphans
                       + (IF connection_check_task.pc = "sleeping"
                          THEN 1 ELSE 0)]
            /\ UNCHANGED << clock, tracker_vars, alert_vars, g_calls,
                            last_message_time >>
            /\ StreamFrame

\* the feed sends a frame on the open connection
FrameArrives(frames, max_ticks) ==
    \E message \in frames :
        /\ websocket.state = "open"
        /\ websocket.inbox = <<>>
        /\ g_stream.frames < MaxFrames
        /\ g_calls + PositiveEntries(message.data) <= max_ticks
        /\ websocket' = [websocket EXCEPT !.inbox = Append(@, message)]
        /\ UNCHANGED << clock, tracker_vars, alert_vars, g_calls,
                        all_usdt_symbols, last_message_time, handler,
                        connection_check_task, g_stream >>
        /\ StreamFrame

\* the peer closes the connection
PeerCloses ==
    /\ websocket.state = "open"
    /\ websocket' = [websocket EXCEPT !.state = "closed"]
    /\ UNCHANGED << clock, tracker_vars, alert_vars, g_calls,
                    all_usdt_symbols, last_message_time, handler,
                    connection_check_task, g_stream >>
    /\ StreamFrame

\* mutant of Returned: the watchdog task is left running
Returned_leaves_watchdog == UNCHANGED connection_check_task

\* handle_websocket leaves its try statement: `finally` cancels the watchdog
\* task, and run() leaves `async with`, which closes the connection
Returned ==
    /\ connection_check_task' =
           IF connection_check_task.pc = "sleeping"
           THEN [connection_check_task EXCEPT !.pc = "cancelled"]
           ELSE connection_check_task

\* One iteration of `async for message in websocket`: last_message_time is
\* set, the frame is handled, and an exception of process_message ends the
\* loop in `except Exception`.  The objects are shown as the handling leaves
\* them; while the sleeps of its notifications last, the loop stays inside
\* `await self.process_message(...)`.
ReceiveFrame ==
    /\ handler.pc = "receiving"
    /\ websocket.inbox # <<>>
    /\ \E y \in handle_message(State, Head(websocket.inbox),
                               handler.symbols_to_track, clock) :
        LET ended == y.raised # "none"
            next_pc == IF ended THEN "returned" ELSE "receiving"
            waits == y.sleeps # <<>>
        IN  /\ last_message_time' = Some(clock)
            /\ SetTracker(y.st.tracker)
            /\ last_notification_time' = y.st.ledger
            /\ SetBuckets(y.st.buckets)
            /\ g_calls' = g_calls
                   + Len(SelectSeq(y.ticks, LAMBDA t : t.action = "checked"))
            /\ handler' = [handler EXCEPT
                   !.pc = IF waits THEN "delivering" ELSE next_pc,
                   !.sleeps = y.sleeps, !.after = next_pc]
            /\ websocket' = [websocket EXCEPT
                   !.inbox = Tail(@),
                   !.state = IF ended /\ ~waits THEN "closed" ELSE @]
            /\ IF ended /\ ~waits THEN Returned
               ELSE UNCHANGED connection_check_task
            /\ g_stream' = [g_stream EXCEPT
                   !.frames = @ + 1,
                   !.last_frame_at = Some(clock),
                   !.last = [message |-> Head(websocket.inbox),
                             raised |-> y.raised, ticks |-> y.ticks,
                             before |-> State,
                             symbols_to_track |-> handler.symbols_to_track,
                             loop_ended |-> ended]]
    /\ UNCHANGED << clock, all_usdt_symbols >>
    /\ StreamFrame

\* one asyncio.sleep of _handle_retry is over; after the last one the
\* notification is out of the way and the receive loop goes on, or ends if
\* the handling raised
NotificationSleepOver ==
    /\ handler.pc = "delivering"
    /\ LET rest == Tail(handler.sleeps)
           done == rest = <<>>
       IN  /\ handler' = [handler EXCEPT
                  !.sleeps = rest,
                  !.pc = IF done THEN handler.after ELSE @]
           /\ IF done /\ handler.after = "returned"
              THEN /\ Returned
                   /\ websocket' = [websocket EXCEPT !.state = "closed"]
              ELSE UNCHANGED << connection_check_task, websocket >>
    /\ UNCHANGED << clock, tracker_vars, alert_vars, g_calls,
                    all_usdt_symbols, last_message_time, g_stream >>
    /\ StreamFrame

\* the connection is closed and every frame was taken: the iteration ends
\* (ConnectionClosed is caught) and handle_websocket returns
StreamEnds ==
    /\ handler.pc = "receiving"
    /\ websocket.inbox = <<>>
    /\ websocket.state = "closed"
    /\ handler' = [handler EXCEPT !.pc = "returned"]
    /\ Returned
    /\ UNCHANGED << clock, tracker_vars, alert_vars, g_calls,
                    all_usdt_symbols, last_message_time, websocket,
                    g_stream >>
    /\ StreamFrame

\* The task running handle_websocket is cancelled while the receive loop
\* waits for a frame: the CancelledError is raised at `async for`, passes
\* `except Exception` (it is a BaseException), `finally` cancels the watchdog,
\* and the error leaves handle_websocket; run() leaves `async with`.
HandlerCancelled ==
    /\ handler.pc = "receiving"
    /\ handler' = [handler EXCEPT !.pc = "cancelled"]
    /\ Returned
    /\ websocket' = [websocket EXCEPT !.state = "closed"]
    /\ UNCHANGED << clock, tracker_vars, alert_vars, g_calls,
                    all_usdt_symbols, last_message_time, g_stream >>
    /\ StreamFrame

\* WebSocketHandler.check_connection wakes from a sleep: one pass of its
\* loop
CheckConnection ==
    /\ connection_check_task.pc = "sleeping"
    /\ clock >= connection_check_task.wake
    /\ IF last_message_time = None
       THEN /\ connection_check_task' =
                   [connection_check_task EXCEPT !.wake = clock + CHECK_PERIOD]
            /\ UNCHANGED websocket
       ELSE IF clock - last_message_time[1] > connection_timeout
       THEN /\ connection_check_task' =
                   [connection_check_task EXCEPT !.pc = "finished"]
            /\ websocket' = [websocket EXCEPT !.state = "closed"]
       ELSE /\ connection_check_task' =
                   [connection_check_task EXCEPT !.wake = clock + CHECK_PERIOD]
            /\ UNCHANGED websocket
    /\ UNCHANGED << clock, tracker_vars, alert_vars, g_calls,
                    all_usdt_symbols, last_message_time, handler, g_stream >>
    /\ StreamFrame

\* time passes; a sleeping watchdog wakes when its sleep is over, so the
\* clock does not pass that instant without it
TimePasses(steps, max_clock) ==
    \E d \in steps :
        /\ clock + d <= max_clock
        /\ connection_check_task.pc = "sleeping"
               => clock + d <= connection_check_task.wake
        /\ clock' = clock + d
        /\ UNCHANGED << tracker_vars, alert_vars, g_calls, all_usdt_symbols,
                        last_message_time, websocket, handler,
                        connection_check_task, g_stream >>
        /\ StreamFrame

\* the program started at clock 0, with or without SYMBOLS_OF_INTEREST
InitStream ==
    /\ clock = 0
    /\ symbols_of_interest \in {None, Some(TrackedSymbols)}
    /\ config = DefaultConfig
    /\ NewObjects

NextStream ==
    \/ OpenConnection(MaxStreams)
    \/ FrameArrives(StreamFrames, MaxStreamTicks)
    \/ ReceiveFrame
    \/ NotificationSleepOver
    \/ PeerCloses
    \/ StreamEnds

\* handle_websocket on the connections run() opens: the feed sends frames of
\* every kind, the clock stands still
SpecStream == InitStream /\ [][NextStream]_vars

NextTasks ==
    \/ OpenConnection(MaxStreams)
    \/ FrameArrives(StreamFrames, MaxStreamTicks)
    \/ ReceiveFrame
    \/ NotificationSleepOver
    \/ PeerCloses
    \/ StreamEnds
    \/ HandlerCancelled

\* handle_websocket and the watchdog tasks it creates, on connections that
\* end by the peer's close, by an exception of the handling, or by the
\* cancellation of the task
SpecTasks == InitStream /\ [][NextTasks]_vars

NextWatchdog ==
    \/ TimePasses({CHECK_PERIOD}, MaxWatchClock)
    \/ OpenConnection(MaxStreams)
    \/ FrameArrives({BinaryFrame}, 0)
    \/ ReceiveFrame
    \/ PeerCloses
    \/ StreamEnds
    \/ CheckConnection

\* handle_websocket and its watchdog while time passes: the feed sends
\* frames that carry no tick, or is silent
SpecWatchdog == InitStream /\ [][NextWatchdog]_vars

\* The pipeline of the running program: ticks of the tracked symbol are
\* handled one after the other, the digest task fires in between; two
\* handlers run either at the same clock reading or a full notification
\* interval apart.
Next ==
    \/ AdvanceClock({NOTIFICATION_INTERVAL})
    \/ CheckAndNotify(TrackedSymbols, MaxTicks)
    \/ SendDailyDigest(MaxTicks)

Spec == Init /\ [][Next]_vars

NextTracker ==
    \/ AdvanceClock(ClockSteps)
    \/ UpdatePriceChange(MaxUpdates)

\* the PriceTracker's rolling windows, driven through update_price_change
SpecTracker == Init /\ [][NextTracker]_vars

NextAlerts ==
    \/ AdvanceClock(ClockSteps)
    \/ SendAlert(MaxCalls)
    \/ SendDailyDigest(MaxCalls)

\* the AlertManager as constructed, driven through its two entry points
SpecAlerts == Init /\ [][NextAlerts]_vars

NextNotify ==
    \/ AdvanceClock(ClockSteps)
    \/ SendNotification(MaxSends)

\* the EmailNotificationHandler as constructed, driven through
\* send_notification
SpecNotify == Init /\ [][NextNotify]_vars

\* An event of each kind, as send_alert builds it.
SeedEvent(alert_type) == PriceEvent("BTCUSDT", 100, 0, alert_type)

\* Bucket contents for the digest: nothing recorded, one kind recorded, or
\* every kind recorded.
SeededBuckets ==
    LET one(a) == [EmptyBuckets EXCEPT
                      ![event_type_mapping(a)[1]] = << SeedEvent(a) >>]
        all == [n \in BucketNames |->
                  << SeedEvent(CHOOSE a \in AlertTypes :
                                  event_type_mapping(a) = Some(n)) >>]
    IN  {EmptyBuckets, all} \cup {one(a) : a \in AlertTypes}

\* The digest entry points on an AlertManager whose lists already hold
\* events (the lists are plain attributes of the object).
InitSeeded ==
    /\ clock = 0
    /\ price_changes = NewTracker.price_changes
    /\ all_time_highs = NewTracker.all_time_highs
    /\ all_time_lows = NewTracker.all_time_lows
    /\ ninety_day_highs = NewTracker.ninety_day_highs
    /\ ninety_day_lows = NewTracker.ninety_day_lows
    /\ last_notification_time = [s \in Subjects |-> None]
    /\ \E b \in SeededBuckets :
           /\ ath_events = b.ath_events
           /\ atl_events = b.atl_events
           /\ ninety_day_ath_events = b.ninety_day_ath_events
           /\ ninety_day_atl_events = b.ninety_day_atl_events
           /\ price_movement_events = b.price_movement_events
           /\ g_raised = b.ath_events \o b.atl_events
                             \o b.ninety_day_ath_events
                             \o b.ninety_day_atl_events
                             \o b.price_movement_events
    /\ g_delivered_at = [s \in Subjects |-> None]
    /\ g_samples = [s \in Symbols |-> <<>>]
    /\ g_run = [s \in Symbols |-> None]
    /\ g_calls = 0
    /\ g_last = NoOp
    /\ retry_count = 0
    /\ should_exit = FALSE
    /\ run_pc = "loop"
    /\ digest_task = "pending"
    /\ g_loop = NoLoop
    /\ symbols_of_interest = Some(TrackedSymbols)
    /\ config = DefaultConfig
    /\ NewHandler

NextSeeded ==
    \/ AdvanceClock({NOTIFICATION_INTERVAL})
    \/ SendAlert(MaxSeededCalls)
    \/ SendDailyDigest(MaxSeededCalls)

SpecSeeded == InitSeeded /\ [][NextSeeded]_vars


(* ------------------------------ digest task and tick handling --------- *)

\* send_daily_digest up to its await: `now`, the subject and the body are
\* computed, and send_notification runs as far as its first await.  A
\* rate-limited send returns without awaiting anything, so the whole call,
\* `finally` included, happens in this step; otherwise the call is suspended
\* in the dispatcher's send and other tasks run.
DigestCompiled(max_calls) ==
    /\ g_calls < max_calls
    /\ digest_call.pc = "idle"
    /\ IF rate_limited(last_notification_time, DigestSubject(clock), clock)
       THEN /\ AwaitSendDailyDigest([fails |-> 0, secondary_ok |-> TRUE])
            /\ UNCHANGED digest_call
       ELSE /\ digest_call' = [pc |-> "sending", now |-> clock,
                               body |-> compile_digest_body(Buckets),
                               pending |-> g_raised]
            /\ g_raised' = <<>>
            /\ UNCHANGED << clock, tracker_vars, alert_vars, g_delivered_at,
                            g_samples, g_run, g_calls, g_last >>
    /\ UNCHANGED << run_vars, stream_vars, next_run, g_digest >>

\* The dispatcher's send is over, with the servers answering t: the ledger
\* entry of the digest's subject is written with the time read when the call
\* started, and `finally` clears the lists as they are now.  (No other call
\* touches the ledger entry of the digest's subject in between, so the rate
\* limit test of the call reads the same here as when it was made.)
DigestSent ==
    /\ digest_call.pc = "sending"
    /\ \E t \in TransportOutcomes :
        LET r == send_daily_digest([ledger |-> last_notification_time,
                                    buckets |-> Buckets],
                                   digest_call.now, t)
            calls == << CallRecord(r.subject, digest_call.now, r.sent) >>
        IN  /\ last_notification_time' = r.ledger
            /\ SetBuckets(r.buckets)
            /\ g_delivered_at' = DeliveredAfter(calls, digest_call.now)
            /\ g_calls' = g_calls + 1
            /\ g_last' = [NoOp EXCEPT
                   !.op = "send_daily_digest", !.time = digest_call.now,
                   !.raised = r.raised, !.calls = calls,
                   !.before = Buckets, !.after = r.buckets,
                   !.body = digest_call.body,
                   !.pending = digest_call.pending]
            /\ digest_call' = NoDigestCall
    /\ UNCHANGED << clock, tracker_vars, g_raised, g_samples, g_run,
                    run_vars, stream_vars, next_run, g_digest >>

NextInterleaved ==
    \/ SendAlert(MaxSeededCalls)
    \/ DigestCompiled(MaxSeededCalls)
    \/ DigestSent

\* The digest task and the tick handling of run() on one event loop: while
\* send_daily_digest is suspended in its send, send_alert calls of the
\* receive loop run to their end.
SpecInterleaved == Init /\ [][NextInterleaved]_vars


(* ------------------------------ configured values --------------------- *)

\* values of PERCENTAGE_CHANGE_TIMEFRAME an operator configures: half an
\* hour, the default, two hours (config.py accepts every positive number)
Timeframes == {PERCENTAGE_CHANGE_TIMEFRAME \div 2, PERCENTAGE_CHANGE_TIMEFRAME,
               2 * PERCENTAGE_CHANGE_TIMEFRAME}

\* the program started at clock 0 with one of these timeframes in its Config
InitTimeframes ==
    /\ clock = 0
    /\ symbols_of_interest = Some(TrackedSymbols)
    /\ config \in {[DefaultConfig EXCEPT !.PERCENTAGE_CHANGE_TIMEFRAME = tf] :
                      tf \in Timeframes}
    /\ NewObjects

\* values of MAX_RETRIES an operator configures: none, one, the default
\* (config.py declares `MAX_RETRIES: int` and validates nothing about it)
RetryLimits == {0, 1, MAX_RETRIES}

\* the program started at clock 0 with one of these limits in its Config
InitRetries ==
    /\ clock = 0
    /\ symbols_of_interest = Some(TrackedSymbols)
    /\ config \in {[DefaultConfig EXCEPT !.MAX_RETRIES = n] :
                      n \in RetryLimits}
    /\ NewObjects

\* send_notification under each configured retry limit
SpecRetries == InitRetries /\ [][NextNotify]_vars

NextTimeframes ==
    \/ AdvanceClock(ClockSteps)
    \/ CheckAndNotify(TrackedSymbols, MaxTicks)

\* ticks of the tracked symbol under each configured timeframe, half an hour
\* or a little more apart
SpecTimeframes == InitTimeframes /\ [][NextTimeframes]_vars


(* ------------------------------ the PriceTracker's methods ------------ *)

\* the four extremum getters
Getters ==
    {"get_all_time_high", "get_all_time_low", "get_ninety_day_high",
     "get_ninety_day_low"}

\* the getter of that name, called for symbol
getter_call(getter, tr, symbol) ==
    CASE getter = "get_all_time_high" -> get_all_time_high(tr, symbol)
      [] getter = "get_all_time_low" -> get_all_time_low(tr, symbol)
      [] getter = "get_ninety_day_high" -> get_ninety_day_high(tr, symbol)
      [] getter = "get_ninety_day_low" -> get_ninety_day_low(tr, symbol)

\* a caller awaits one of the extremum getters for a symbol
GetExtremum(max_calls) ==
    /\ g_calls < max_calls
    /\ \E symbol \in Symbols, getter \in Getters :
         \E g \in getter_call(getter, Tracker, symbol) :
            /\ SetTracker(g.tracker)
            /\ g_calls' = g_calls + 1
            /\ g_last' = [NoOp EXCEPT
                   !.op = getter, !.symbol = symbol, !.time = clock,
                   !.raised = g.raised, !.tracker_before = Tracker]
    /\ UNCHANGED << clock, alert_vars, g_delivered_at, g_raised, g_samples,
                    g_run, run_vars, stream_vars, sched_vars >>

NextLookups ==
    \/ AdvanceClock(ClockSteps)
    \/ UpdatePriceChange(MaxLookups)
    \/ GetExtremum(MaxLookups)

\* the PriceTracker driven through the five methods check_and_notify calls,
\* for either symbol and in any order
SpecLookups == Init /\ [][NextLookups]_vars

(* ------------------------------ claims: notification and digest ------- *)

LastCalls == {g_last.calls[i] : i \in 1..Len(g_last.calls)}

Attempts(c) == c.primary + c.secondary

\* C1: once a send_notification call for a subject has delivered the message
\* (through the primary or the secondary server), every later call for that
\* subject made less than NOTIFICATION_INTERVAL seconds afterwards makes no
\* transport attempt.
C1_AtMostOncePerInterval ==
    \A c \in LastCalls :
        (c.since_delivered # None
            /\ c.since_delivered[1] < NOTIFICATION_INTERVAL)
        => Attempts(c) = 0

\* C2: a send_alert call whose notification was delivered or rate-limited
\* appends exactly one PriceEvent to the bucket of its alert type, whatever
\* the bucket held before, and leaves the other buckets alone.
C2_AlertAppendsOneEvent ==
    (g_last.op = "send_alert" /\ ~g_last.raised)
    => LET n == event_type_mapping(g_last.alert_type)[1]
           e == PriceEvent(g_last.symbol, g_last.price, g_last.time,
                           g_last.alert_type)
       IN  g_last.after = [g_last.before EXCEPT ![n] = Append(@, e)]

\* the heading _compile_digest_body gives the events of an alert type
HeadingOf(alert_type) ==
    LET i == CHOOSE k \in 1..Len(DigestSections) :
                 Some(DigestSections[k][1]) = event_type_mapping(alert_type)
    IN  TextLine(DigestSections[i][2])

\* the lines of `body` that follow line h, up to the next empty line
RECURSIVE LinesAfter(_, _)
LinesAfter(body, h) ==
    IF h >= Len(body) \/ body[h + 1] = TextLine("") THEN <<>>
    ELSE << body[h + 1] >> \o LinesAfter(body, h + 1)

\* the lines `body` holds under `heading`: none if the heading is absent
SectionOf(body, heading) ==
    IF \E h \in 1..Len(body) : body[h] = heading
    THEN LinesAfter(body, CHOOSE h \in 1..Len(body) : body[h] = heading)
    ELSE <<>>

EventsOfType(events, alert_type) ==
    SelectSeq(events, LAMBDA e : e.event_type = alert_type)

\* C3: the body send_daily_digest hands to the dispatcher holds one line per
\* event that send_alert raised since the previous digest, under the heading
\* of the event's kind.
C3_DigestListsEveryEvent ==
    g_last.op = "send_daily_digest"
    => \A a \in AlertTypes :
           LET events == EventsOfType(g_last.pending, a)
           IN  SectionOf(g_last.body, HeadingOf(a))
                   = [k \in 1..Len(events) |-> EventLine(events[k])]

\* C4: when send_daily_digest has finished, by returning or by raising, all
\* five buckets are empty.
C4_BucketsEmptyAfterDigest ==
    g_last.op = "send_daily_digest"
    => /\ ath_events = <<>>
       /\ atl_events = <<>>
       /\ ninety_day_ath_events = <<>>
       /\ ninety_day_atl_events = <<>>
       /\ price_movement_events = <<>>

\* C4 witness: a digest whose send raised, started with every bucket filled
C4_Witness ==
    /\ g_last.op = "send_daily_digest"
    /\ g_last.raised
    /\ \A n \in BucketNames : g_last.before[n] # <<>>
    /\ \A n \in BucketNames : Buckets[n] = <<>>

InBody(line, body) == \E i \in 1..Len(body) : body[i] = line

\* C5: the digest body states that no significant events occurred exactly
\* when all five buckets are empty, so the body of an empty digest is never
\* blank.
C5_NoEventsStatedIffEmpty ==
    g_last.op = "send_daily_digest"
    => (InBody(NoEventsLine, g_last.body) <=> g_last.before = EmptyBuckets)

\* C5 witness: a digest compiled from five empty buckets went out carrying
\* the statement
C5_Witness ==
    /\ g_last.op = "send_daily_digest"
    /\ g_last.before = EmptyBuckets
    /\ g_last.calls[1].outcome = "sent"
    /\ g_last.body = Append(DigestHeader, NoEventsLine)


(* ------------------------------ claims: price tracker ----------------- *)

\* the handlers that run update_price_change
UpdatedWindow == g_last.op \in {"update_price_change", "check_and_notify"}

\* every sample of the last call's symbol that arrived before that call
EarlierSamples ==
    LET all == g_samples[g_last.symbol]
    IN  SubSeq(all, 1, Len(all) - 1)

\* the earlier samples that are at most `timeframe` old at the last call
StillInTimeframe ==
    SelectSeq(EarlierSamples,
        LAMBDA e : g_last.time - e.timestamp <= DEFAULT_TIMEFRAME)

\* C6: with non-decreasing clock readings, update_price_change returns None
\* exactly when no earlier sample of the symbol is within the timeframe of
\* the new one (only the new sample is retained), and otherwise returns
\* (new price - oldest retained price) / oldest retained price * 100.
C6_RollingChange ==
    UpdatedWindow
    => IF StillInTimeframe = <<>>
       THEN g_last.change = None
       ELSE /\ g_last.change # None
            /\ g_last.change[1].num * StillInTimeframe[1].price
                 = (g_last.price - StillInTimeframe[1].price) * 100
                     * g_last.change[1].den

\* C6 witness: a call answered against a sample that is not the oldest one
\* ever seen, the oldest having left the timeframe
C6_Witness ==
    /\ g_last.op = "update_price_change"
    /\ StillInTimeframe # <<>>
    /\ Len(StillInTimeframe) < Len(EarlierSamples)
    /\ g_last.change # None
    /\ g_last.change[1].num # 0

\* C7: after update_price_change the symbol's window holds its samples in
\* arrival order, ends with the sample just inserted, and holds no sample
\* more than `timeframe` seconds older than that one.
C7_WindowTrimmedInOrder ==
    UpdatedWindow
    => LET w == price_changes[g_last.symbol]
           all == g_samples[g_last.symbol]
       IN  /\ w # <<>>
           /\ Len(w) <= Len(all)
           /\ w = SubSeq(all, Len(all) - Len(w) + 1, Len(all))
           /\ w[Len(w)] = Sample(g_last.price, g_last.time)
           /\ \A i \in 1..Len(w) :
                  g_last.time - w[i].timestamp <= DEFAULT_TIMEFRAME

\* C7 witness: a call that evicted a sample and kept another
C7_Witness ==
    /\ g_last.op = "update_price_change"
    /\ Len(price_changes[g_last.symbol]) >= 2
    /\ Len(price_changes[g_last.symbol]) < Len(g_samples[g_last.symbol])

(* ------------------------------ claims: extrema ----------------------- *)

HighBefore == g_last.tracker_before.all_time_highs[g_last.symbol]

\* C8: once a symbol's all_time_high is cached, a tick at or below it leaves
\* the cached value unchanged.
C8_TickAtOrBelowKeepsHigh ==
    (g_last.op = "check_and_notify"
        /\ HighBefore # None
        /\ g_last.price <= HighBefore[1])
    => all_time_highs[g_last.symbol] = HighBefore

\* C8 witness: a tick below the cached all-time high was handled to the end
C8_Witness ==
    /\ g_last.op = "check_and_notify"
    /\ ~g_last.raised
    /\ HighBefore # None
    /\ g_last.price < HighBefore[1]
    /\ all_time_highs[g_last.symbol] = HighBefore

AlertsCalled == {g_last.alerts[i] : i \in 1..Len(g_last.alerts)}

\* C9: in a run of consecutive ticks of one symbol that are all above the
\* all-time high cached before the run and do not rise above the run's first
\* tick, send_alert("ATH", ...) is called for the first tick only.
C9_OneAthAlertPerCrossing ==
    (g_last.op = "check_and_notify" /\ g_last.later_in_run)
    => "ATH" \notin AlertsCalled

\* C10: when check_and_notify has returned and the four extrema of the symbol
\* are cached, all_time_high >= ninety_day_high >= price and
\* all_time_low <= ninety_day_low <= price.
C10_CachesAbsorbPrice ==
    LET s == g_last.symbol
    IN  (g_last.op = "check_and_notify"
            /\ ~g_last.raised
            /\ all_time_highs[s] # None
            /\ all_time_lows[s] # None
            /\ ninety_day_highs[s] # None
            /\ ninety_day_lows[s] # None)
        => /\ all_time_highs[s][1] >= ninety_day_highs[s][1]
           /\ ninety_day_highs[s][1] >= g_last.price
           /\ all_time_lows[s][1] <= ninety_day_lows[s][1]
           /\ ninety_day_lows[s][1] <= g_last.price

ExtremumAlerts == {"ATH", "ATL", "90-Day ATH", "90-Day ATL"}

\* the four getters answered None: the history calls gave no candle
UnknownExtrema ==
    /\ g_last.ath = None
    /\ g_last.atl = None
    /\ g_last.ninety_day_high = None
    /\ g_last.ninety_day_low = None

\* C11: when the historical-data calls return empty history the getters
\* answer None without raising, and a tick handled with the four extrema
\* unknown calls send_alert for none of ATH, ATL, 90-Day ATH, 90-Day ATL.
C11_UnknownExtremaRaiseNoAlert ==
    (g_last.op = "check_and_notify" /\ g_last.classified /\ UnknownExtrema)
    => AlertsCalled \cap ExtremumAlerts = {}

GetterCalls == {g_last.fetches[i] : i \in 1..Len(g_last.fetches)}

\* the dicts of cached extrema
ExtremaCaches(tr) ==
    << tr.all_time_highs, tr.all_time_lows, tr.ninety_day_highs,
       tr.ninety_day_lows >>

\* C12: a getter calls the historical-data collaborator exactly when the dict
\* of its kind does not hold the symbol, and a value that is cached stays
\* cached, so no later getter call of that symbol and kind fetches again.
C12_ExtremaFetchedLazilyOnce ==
    g_last.op = "check_and_notify"
    => /\ \A f \in GetterCalls : f.fetched <=> ~f.cached
       /\ \A k \in 1..4, s \in Symbols :
              ExtremaCaches(g_last.tracker_before)[k][s] # None
              => ExtremaCaches(Tracker)[k][s] # None

\* C12 witness: a tick whose four getter calls all found their value cached
\* by an earlier tick and fetched nothing
C12_Witness ==
    /\ g_last.op = "check_and_notify"
    /\ Len(g_last.fetches) = 4
    /\ \A f \in GetterCalls : f.cached /\ ~f.fetched
    /\ Len(g_samples[g_last.symbol]) >= 2

(* ------------------------------ claims: classification ---------------- *)

\* the four getters answered with a cached value
KnownExtrema ==
    /\ g_last.ath # None
    /\ g_last.atl # None
    /\ g_last.ninety_day_high # None
    /\ g_last.ninety_day_low # None

\* the extremum alerts of the last tick, by position in its alert sequence
ExtremumAlertsSent ==
    {i \in 1..Len(g_last.alerts) : g_last.alerts[i] \in ExtremumAlerts}

\* the extremum the price has passed, highest priority first
FirstPassed ==
    IF g_last.price > g_last.ath[1] THEN {"ATH"}
    ELSE IF g_last.price < g_last.atl[1] THEN {"ATL"}
    ELSE IF g_last.price > g_last.ninety_day_high[1] THEN {"90-Day ATH"}
    ELSE IF g_last.price < g_last.ninety_day_low[1] THEN {"90-Day ATL"}
    ELSE {}

\* C13: one check_and_notify call sends at most one of the four extremum
\* alerts; with the four extrema cached it is the first of ATH, ATL,
\* 90-Day ATH, 90-Day ATL whose extremum the price is strictly beyond, and
\* none if the price is beyond none of them (a price equal to a cached
\* extremum sends no alert for it).
C13_OneExtremumAlertByPriority ==
    g_last.op = "check_and_notify"
    => /\ Cardinality(ExtremumAlertsSent) <= 1
       /\ (g_last.classified /\ KnownExtrema)
              => {g_last.alerts[i] : i \in ExtremumAlertsSent} = FirstPassed

\* C13 witness: a price above both the all-time high and the 90-day high
\* sent the ATH alert and nothing else
C13_Witness ==
    /\ g_last.op = "check_and_notify"
    /\ g_last.classified /\ KnownExtrema
    /\ g_last.price > g_last.ath[1]
    /\ g_last.price > g_last.ninety_day_high[1]
    /\ g_last.alerts = << "ATH" >>

\* C13 witness of the other kinds: a price equal to the cached all-time high
\* and above the cached 90-day high sent the 90-Day ATH alert
C13_WitnessNinetyDay ==
    /\ g_last.op = "check_and_notify"
    /\ g_last.classified /\ KnownExtrema
    /\ g_last.price = g_last.ath[1]
    /\ g_last.alerts = << "90-Day ATH" >>

\* C14: a check_and_notify call sends the Price Movement alert exactly when
\* the rolling change is not None and at least NOTIFICATION_THRESHOLD percent
\* in absolute value, and the extremum alert is decided on its own: a tick
\* above the cached all-time high sends the ATH alert whether or not it also
\* sent the Price Movement alert.
C14_PriceMovementIndependent ==
    g_last.op = "check_and_notify"
    => /\ "Price Movement" \in AlertsCalled
              <=> /\ g_last.change # None
                  /\ Abs(g_last.change[1].num)
                        >= NOTIFICATION_THRESHOLD * g_last.change[1].den
       /\ (g_last.classified /\ g_last.ath # None
               /\ g_last.price > g_last.ath[1])
              => "ATH" \in AlertsCalled

\* C14 witness: cached all-time high 101, ticks 100 then 102 inside the
\* timeframe: the second tick sent a Price Movement alert and an ATH alert
C14_Witness ==
    /\ g_last.op = "check_and_notify"
    /\ g_last.price = 102
    /\ g_last.tracker_before.all_time_highs[g_last.symbol] = Some(101)
    /\ g_last.tracker_before.price_changes[g_last.symbol]
           = << Sample(100, 0) >>
    /\ g_last.change = Some(Percentage(102, 100))
    /\ g_last.alerts = << "Price Movement", "ATH" >>

(* ------------------------------ claims: retry and rate limit ---------- *)

\* the last handler was a send_notification call that got past the rate limit
Attempted ==
    g_last.op = "send_notification" /\ g_last.calls[1].outcome # "rate_limited"

\* MAX_RETRIES failed primary attempts with the backoff sleeps between them,
\* then one attempt on the secondary server
FailoverTrace(secondary_ok) ==
    [i \in 1..(2 * MAX_RETRIES) |->
        IF i = 2 * MAX_RETRIES THEN SecondaryAttempt(secondary_ok)
        ELSE IF i % 2 = 1 THEN PrimaryAttempt(FALSE)
        ELSE LET attempt == (i \div 2) - 1
             IN  IF INITIAL_RETRY_DELAY * (2 ^ attempt) < MAX_RETRY_DELAY
                 THEN Sleep(INITIAL_RETRY_DELAY * (2 ^ attempt))
                 ELSE Sleep(MAX_RETRY_DELAY)]

\* C15: when every primary send fails, send_notification makes exactly
\* MAX_RETRIES primary attempts with a sleep of
\* min(INITIAL_RETRY_DELAY * 2^attempt, MAX_RETRY_DELAY) between consecutive
\* ones, then exactly one attempt on the secondary server, and raises exactly
\* when that fails; in every call the secondary server is tried at most once,
\* as the last step, and never after a primary attempt that succeeded.
C15_RetriesThenOneFailover ==
    Attempted
    => LET tr == g_last.trace
           t == g_last.transport
       IN  /\ t.fails >= MAX_RETRIES
                  => /\ tr = FailoverTrace(t.secondary_ok)
                     /\ g_last.raised <=> ~t.secondary_ok
           /\ \A i \in 1..Len(tr) :
                  /\ tr[i].kind = "secondary"
                        => /\ i = Len(tr)
                           /\ \A j \in 1..(i - 1) :
                                  tr[j].kind = "primary" => ~tr[j].ok
                  /\ (tr[i].kind = "primary" /\ tr[i].ok) => i = Len(tr)

\* C15 witness: five failed primary attempts, sleeps of 1, 2, 4 and 8 seconds,
\* and a failed secondary attempt that raised to the caller
C15_Witness ==
    /\ Attempted
    /\ g_last.raised
    /\ g_last.calls[1].primary = MAX_RETRIES
    /\ g_last.calls[1].secondary = 1
    /\ g_last.calls[1].sleeps = << 1, 2, 4, 8 >>

\* C16: a send_notification call that delivered the message, through the
\* primary or through the secondary server, has set
\* last_notification_time[subject] to the time of the call.
C16_DeliveryUpdatesLedger ==
    (g_last.op = "send_notification" /\ Delivered(g_last.calls[1]))
    => last_notification_time[g_last.subject] = Some(g_last.time)

\* C17: a send_notification call made less than NOTIFICATION_INTERVAL after
\* the ledger entry of its subject returns normally, makes no attempt on
\* either server and leaves the ledger entry unchanged.
C17_RateLimitedCallIsSilent ==
    (g_last.op = "send_notification"
        /\ g_last.entry_before # None
        /\ g_last.time - g_last.entry_before[1] < NOTIFICATION_INTERVAL)
    => /\ ~g_last.raised
       /\ g_last.trace = <<>>
       /\ Attempts(g_last.calls[1]) = 0
       /\ last_notification_time[g_last.subject] = g_last.entry_before

\* C17 witness: a call 1800 seconds after the ledger entry of its subject,
\* with both servers down, returned without an attempt
C17_Witness ==
    /\ g_last.op = "send_notification"
    /\ g_last.entry_before = Some(0)
    /\ g_last.time = 1800
    /\ g_last.transport = [fails |-> MAX_RETRIES, secondary_ok |-> FALSE]
    /\ ~g_last.raised
    /\ g_last.trace = <<>>

(* ------------------------------ claims: reconnect loop ---------------- *)

\* initial * 2^k, capped at max
Backoff(k) ==
    IF INITIAL_RETRY_DELAY * (2 ^ k) < MAX_RETRY_DELAY
    THEN INITIAL_RETRY_DELAY * (2 ^ k)
    ELSE MAX_RETRY_DELAY

\* the last step of run() was a connection attempt that failed with no
\* shutdown requested
FailedAttempt ==
    g_loop.last.kind = "connect_failed" /\ ~g_loop.last.exit_requested

\* C18: the k-th consecutive connection failure that does not exceed
\* MAX_RETRIES is followed by a sleep of
\* min(INITIAL_RETRY_DELAY * 2^k, MAX_RETRY_DELAY) before the next connection
\* attempt, and run() sleeps at no other time.
C18_ReconnectBackoff ==
    /\ \A i \in 1..Len(g_loop.sleeps) :
           /\ g_loop.sleeps[i].k \in 1..MAX_RETRIES
           /\ g_loop.sleeps[i].wait = Backoff(g_loop.sleeps[i].k)
           /\ g_loop.sleeps[i].wait <= MAX_RETRY_DELAY
    /\ (FailedAttempt /\ g_loop.last.k <= MAX_RETRIES)
           => /\ run_pc = "sleeping"
              /\ g_loop.sleeps # <<>>
              /\ g_loop.sleeps[Len(g_loop.sleeps)].k = g_loop.last.k
    /\ run_pc = "sleeping" => g_loop.last.kind = "connect_failed"

\* C18 witness: five consecutive failures were followed by sleeps of 2, 4, 8,
\* 16 and 32 seconds
C18_Witness ==
    /\ run_pc = "sleeping"
    /\ g_loop.sleeps =
           [k \in 1..MAX_RETRIES |-> [k |-> k, wait |-> 2 ^ k]]

\* C19: once the retry counter exceeds MAX_RETRIES the loop is left, the
\* digest task is cancelled, shutdown() is executed and run() returns
\* normally, whatever happened to the digest task meanwhile.
C19_ExhaustionEndsRunCleanly ==
    g_loop.exhausted
    => /\ retry_count > MAX_RETRIES
       /\ g_loop.shutdown
       /\ digest_task # "pending"
       /\ run_pc = "returned"

\* C20: every connection-level failure that is not a shutdown request, a
\* connection opened and then closed by the peer included, increments the
\* retry counter and is followed by a backoff sleep or, once the counter
\* exceeds MAX_RETRIES, by the end of the loop.
C20_EveryFailureCountsAndBacksOff ==
    (g_loop.last.kind \in {"connect_failed", "closed_by_peer"}
        /\ ~g_loop.last.exit_requested)
    => /\ retry_count = g_loop.last.retry_before + 1
       /\ run_pc = "sleeping" \/ g_loop.exhausted

\* C21: the retry counter is reset to zero only after a connection has
\* carried frames: when a session ends on a connection that delivered no
\* frame, the counter keeps the value it had when the connection was opened.
C21_ResetOnlyAfterMessageFlow ==
    (g_loop.last.kind = "closed_by_peer" /\ g_loop.last.frames = 0)
    => retry_count = g_loop.last.retry_before

\* C22: a handshake rejected by the server (InvalidStatusCode) is fatal at
\* once: after it run() has left the loop, with no backoff sleep and no new
\* connection attempt, whatever the retry counter is.
C22_HandshakeRejectionIsFatal ==
    (g_loop.last.kind = "connect_failed"
        /\ g_loop.last.exc = "InvalidStatusCode")
    => /\ run_pc \in {"returned", "raised"}
       /\ g_loop.shutdown

\* C28: after the shutdown signal (should_exit set, the tasks cancelled)
\* run() eventually returns normally, with the digest task cancelled or
\* finished and shutdown() executed.
C28_ShutdownSignalEndsRun ==
    should_exit ~> (/\ run_pc = "returned"
                    /\ digest_task # "pending"
                    /\ g_loop.shutdown)

(* ------------------------------ claims: stream client ----------------- *)

\* the time since the last frame the receive loop took on the current
\* connection, or since the connection was opened if it carried none
Silence ==
    clock - (IF g_stream.last_frame_at # None THEN g_stream.last_frame_at[1]
             ELSE g_stream.opened_at)

\* the current connection is open and its grace period is over
PastGrace ==
    /\ websocket.state = "open"
    /\ clock - g_stream.opened_at >= connection_timeout

\* C23: on every connection, the first one and one that never carried a
\* frame included, once the grace period is over a silence longer than the
\* liveness timeout is ended by the watchdog within one check period: no
\* connection past its grace period is open after a silence of more than
\* connection_timeout + CHECK_PERIOD.
C23_SilentConnectionIsClosed ==
    PastGrace => Silence <= connection_timeout + CHECK_PERIOD

\* the receive loop is suspended in a notification's retry sleep
InNotificationRetry == handler.pc = "delivering"

\* C24: the receive loop never waits for notification delivery: while a
\* notification is being retried, a frame that has arrived is not kept
\* waiting, the loop is at `async for` and can take it.
C24_ReceiveLoopNeverWaitsForDelivery ==
    websocket.inbox # <<>> => ~InNotificationRetry

\* text that is not JSON, JSON that is not a list, or a list with an entry
\* whose "p" is not a number
Malformed(message) ==
    \/ message.kind \in {"not_json", "json_object"}
    \/ /\ message.kind = "list"
       /\ \E i \in 1..Len(message.data) : ~message.data[i].p.numeric

\* every entry of the last frame was reached by process_message
AllEntriesReached ==
    Len(g_stream.last.ticks) = Len(g_stream.last.message.data)

\* C25: a malformed frame is skipped and never ends the receive loop.
C25_MalformedFrameIsSkipped ==
    Malformed(g_stream.last.message) => ~g_stream.last.loop_ended

\* C26: a notification that failed on every transport does not end the
\* receive loop: the remaining entries of the frame are processed and the
\* loop goes on.
C26_DeliveryFailureKeepsLoop ==
    g_stream.last.raised = "send_alert"
    => ~g_stream.last.loop_ended /\ AllEntriesReached

\* C27: an exception of the historical-data call during an extremum lookup
\* does not leave check_and_notify: the receive loop goes on with the next
\* entries and frames.
C27_LookupFailureIsNotPropagated ==
    g_stream.last.raised = "get_historical_data"
    => ~g_stream.last.loop_ended /\ AllEntriesReached

\* the USDT symbols the exchange lists as TRADING
TradingUsdtSymbols ==
    {z.symbol : z \in {y \in ExchangeListing :
                          y.symbol \in Symbols /\ y.status = "TRADING"}}

\* the entry names a positive number
PositivePrice(entry) == entry.p.numeric /\ entry.p.value > 0

\* no entry of the last frame was handed to check_and_notify
NothingChecked ==
    \A i \in 1..Len(g_stream.last.ticks) :
        g_stream.last.ticks[i].action # "checked"

Occurrences(t) == (t + DAY - DAILY_DIGEST_TIME) \div DAY

\* the first occurrence of the digest time of day that is not before t
NextOccurrence(t) ==
    ((t + DAY - DAILY_DIGEST_TIME - 1) \div DAY) * DAY + DAILY_DIGEST_TIME

\* the longest a sleep overruns
MaxLateness == CHOOSE m \in Lateness : \A l \in Lateness : l <= m

\* C29: the scheduler sends the digest at the next occurrence of
\* DAILY_DIGEST_TIME after it computed its wait (as soon as its sleep
\* returns), and once per day: between two consecutive send_daily_digest
\* calls the clock passes the digest time of day exactly once, also when the
\* wait was computed at the very instant of the digest time.
C29_DigestOncePerDay ==
    /\ \A i \in 1..Len(g_digest.sends) :
           LET c == g_digest.sends[i].computed_at
               at == g_digest.sends[i].at
           IN  /\ at >= NextOccurrence(c)
               /\ at <= NextOccurrence(c) + MaxLateness
    /\ \A i \in 1..(Len(g_digest.sends) - 1) :
           Occurrences(g_digest.sends[i + 1].at)
               - Occurrences(g_digest.sends[i].at) = 1

\* C29 witness: the wait was computed at the very instant of the digest
\* time, the digest was sent at that instant, and the next digest was sent a
\* day later
C29_Witness ==
    /\ Len(g_digest.sends) = 2
    /\ g_digest.sends[1].computed_at = DAILY_DIGEST_TIME
    /\ g_digest.sends[1].at = DAILY_DIGEST_TIME
    /\ g_digest.sends[2].at = DAILY_DIGEST_TIME + DAY

(* ------------------------------ claims: digest task and ticks --------- *)

\* the events the list of the event's kind holds
InBucket(event) ==
    LET n == event_type_mapping(event.event_type)[1]
    IN  \E k \in 1..Len(Buckets[n]) : Buckets[n][k] = event

\* the body has the line of the event under the heading of its kind
ListedIn(body, event) ==
    LET section == SectionOf(body, HeadingOf(event.event_type))
    IN  \E k \in 1..Len(section) : section[k] = EventLine(event)

\* C31: no event is lost to the interleaving of the digest task with tick
\* handling: when send_daily_digest has finished, an event that send_alert
\* recorded while the call was suspended in its send (after the body was
\* compiled) is in the body of that digest or still in its list for the next
\* one.
C31_NoEventLostToInterleaving ==
    g_last.op = "send_daily_digest"
    => \A i \in 1..Len(g_raised) :
           ListedIn(g_last.body, g_raised[i]) \/ InBucket(g_raised[i])

\* the scheduler task has not ended: it is at the head of its loop, asleep,
\* or in a send_daily_digest call
SchedulerRunning ==
    digest_task \in {"pending", "sleeping", "woken", "sending"}

\* C32: a failed digest delivery does not stop the daily schedule: after
\* send_daily_digest has raised inside schedule_daily_digest, and as long as
\* no shutdown was requested, the scheduler task is still running (and so
\* reaches the next occurrence of the digest time).
C32_FailedDigestKeepsSchedule ==
    (g_last.op = "send_daily_digest" /\ g_last.raised /\ ~should_exit)
    => SchedulerRunning

(* ------------------------------ claims: failed live alerts ------------ *)

\* C33: a send_alert call whose notification failed on every transport, and
\* which re-raises the failure, has recorded its PriceEvent in the list of
\* its kind.
C33_FailedAlertIsStillRecorded ==
    (g_last.op = "send_alert" /\ g_last.raised)
    => LET n == event_type_mapping(g_last.alert_type)[1]
           e == PriceEvent(g_last.symbol, g_last.price, g_last.time,
                           g_last.alert_type)
       IN  g_last.after[n] = Append(g_last.before[n], e)

(* ------------------------------ claims: configured values ------------- *)

\* the earlier samples of the last tick's symbol that are at most the
\* configured PERCENTAGE_CHANGE_TIMEFRAME old at that tick
InConfiguredTimeframe ==
    SelectSeq(EarlierSamples,
        LAMBDA e : g_last.time - e.timestamp
                       <= config.PERCENTAGE_CHANGE_TIMEFRAME)

\* C34: for every tick handled by check_and_notify the window of the symbol
\* is trimmed with the configured PERCENTAGE_CHANGE_TIMEFRAME: afterwards it
\* holds exactly the samples at most that many seconds old, and the
\* percentage compared with the threshold is the change since the oldest of
\* them, for every configured value.
C34_WindowUsesConfiguredTimeframe ==
    g_last.op = "check_and_notify"
    => /\ price_changes[g_last.symbol]
              = Append(InConfiguredTimeframe,
                       Sample(g_last.price, g_last.time))
       /\ IF InConfiguredTimeframe = <<>>
          THEN g_last.change = None
          ELSE /\ g_last.change # None
               /\ g_last.change[1].num * InConfiguredTimeframe[1].price
                    = (g_last.price - InConfiguredTimeframe[1].price) * 100
                        * g_last.change[1].den

(* ------------------------------ claims: per-symbol state -------------- *)

\* what the tracker holds for one symbol
SymbolState(tr, s) ==
    [price_changes |-> tr.price_changes[s],
     all_time_highs |-> tr.all_time_highs[s],
     all_time_lows |-> tr.all_time_lows[s],
     ninety_day_highs |-> tr.ninety_day_highs[s],
     ninety_day_lows |-> tr.ninety_day_lows[s]]

\* the handlers that call into the tracker for g_last.symbol
TrackerOps == {"update_price_change", "check_and_notify"} \cup Getters

\* C35: update_price_change and the four extremum getters called for symbol
\* S, and so the handling of a tick for S, leave the rolling window and the
\* four cached extrema of every other symbol as they were.
C35_OtherSymbolsUntouched ==
    g_last.op \in TrackerOps
    => \A s \in Symbols \ {g_last.symbol} :
           SymbolState(Tracker, s) = SymbolState(g_last.tracker_before, s)

\* C35 witness: update_price_change ran for one symbol when another symbol
\* had cached extrema and a window whose sample had left the timeframe
C35_Witness ==
    /\ g_last.op = "update_price_change"
    /\ Tracker # g_last.tracker_before
    /\ \E s \in Symbols \ {g_last.symbol} :
           /\ price_changes[s] # <<>>
           /\ g_last.time - price_changes[s][1].timestamp > DEFAULT_TIMEFRAME
           /\ all_time_highs[s] # None

\* the send_notification call returned without raising
ReturnedNormally(c) == c.outcome # "raised"

\* C36: every send_notification call ends in exactly one of three outcomes,
\* for every configured MAX_RETRIES including 0: it is rate-limited and
\* makes no attempt, or it returns after the primary or the secondary server
\* accepted the message, or it raises; it never returns normally without a
\* delivery when it was not rate-limited.
C36_NotificationOutcomes ==
    g_last.op = "send_notification"
    => \A c \in LastCalls :
           /\ c.outcome = "rate_limited" => Attempts(c) = 0
           /\ (ReturnedNormally(c) /\ c.outcome # "rate_limited")
                  => Delivered(c)

(* ------------------------------ claims: failed sends ------------------ *)

\* the call before the last one was a send_notification for the same
\* subject, and it raised
AfterFailedSend ==
    /\ g_last.previous.op = "send_notification"
    /\ g_last.previous.subject = g_last.subject
    /\ g_last.previous.raised

\* C37: a send_notification call that failed on every transport leaves
\* last_notification_time unchanged, and the next call for the same subject
\* is not rate-limited by it: it attempts delivery again.
C37_FailedSendLeavesLedger ==
    g_last.op = "send_notification"
    => /\ g_last.raised => last_notification_time = g_last.ledger_before
       /\ AfterFailedSend => \A c \in LastCalls : Attempts(c) >= 1

\* C37 witness: a call that raised was followed, at the same clock reading,
\* by a call for the same subject that delivered the message
C37_Witness ==
    /\ g_last.op = "send_notification"
    /\ AfterFailedSend
    /\ g_last.previous.time = g_last.time
    /\ \A c \in LastCalls : c.outcome = "sent"

(* ------------------------------ claims: the watchdog task ------------- *)

\* handle_websocket is running: it waits for a frame or is handling one
HandlerRunning == handler.pc \in {"receiving", "delivering"}

\* the watchdog task of the current call has not ended
WatchdogRunning == connection_check_task.pc = "sleeping"

\* the watchdog tasks that have not ended
WatchdogTasks == g_stream.orphans + (IF WatchdogRunning THEN 1 ELSE 0)

\* C38: when handle_websocket has ended, by normal return, by an error of
\* the connection or the handling, or by cancellation, the watchdog task it
\* started is no longer running: at most one watchdog task exists at any
\* time, and none exists while no handle_websocket call is under way.
C38_WatchdogEndsWithHandler ==
    /\ WatchdogTasks <= 1
    /\ ~HandlerRunning => WatchdogTasks = 0

\* C38 witness: a second connection, opened after the first one had ended,
\* was ended by cancellation, and its watchdog was cancelled
C38_Witness ==
    /\ g_stream.connections = 2
    /\ handler.pc = "cancelled"
    /\ connection_check_task.pc = "cancelled"

(* ------------------------------ claims: cancellation of run() --------- *)

\* C39: cancelling the run() task always stops the reconnect loop: after a
\* cancellation delivered while run() is connecting or connected, run()
\* opens no further connection, whether or not should_exit was set before.
C39_CancellationStopsReconnecting ==
    g_loop.cancelled # None => g_loop.connects = g_loop.cancelled[1]

=============================================================================
